---- MODULE Spec2Model ----
(***************************************************************************)
(* Model of the incremental translation pipeline of LimbusCompanyLLM-      *)
(* Translator: terminology substitution, policy grouping and byte-budgeted *)
(* batching, the concurrent batch executor with retry and fallback, the    *)
(* numbered-list reply parser, the id-based diff and merge of dataLists,   *)
(* and the per-policy task collection of modify.                           *)
(*                                                                         *)
(* Text is a sequence of characters, each character a one-symbol string.   *)
(* Characters outside ASCII are written by their code point ("u751f").     *)
(* Dictionaries keep Python's insertion order and are sequences of pairs.  *)
(* Indices into Python lists are 0-based, as in the source; a TLA+         *)
(* sequence holding a Python list is read at position index + 1.           *)
(***************************************************************************)
EXTENDS Integers, Sequences, FiniteSets, TLC

VARIABLES
    \* ---- Translator.batch_translate_with_multiple_strategies ----
    tasks,                  \* the task list handed to the call
    max_chars_per_batch,    \* the byte threshold in force
    pc,                     \* position of the calling thread
    all_futures,            \* the submitted batches, in submission order
    results_map,            \* task index -> text
    global_request_counter, \* {"count": n}
    translation_cache,      \* Translator._translation_cache
    collected,              \* number of futures the collecting loop has passed
    \* ---- Translator.translate_batch_of_texts, as a pure function ----
    reply_texts,            \* the texts t_1..t_n a composed reply is made of
    ai_response,            \* the backend's reply
    api_translations,       \* the parsed reply
    parse_pc,
    reply_lines,            \* ai_response.split('\n'), once the loop is entered
    line_idx,               \* number of lines the loop has passed
    loop,                   \* current_num, current_translation and the map so far
    \* ---- FileWriter.merge_datalists ----
    target_list,            \* the target dataList, merged into in place
    source_list,            \* the source dataList of the last merge
    merge_before,           \* the target dataList before the last merge
    merge_pc,
    \* ---- TextExtractor.find_new_content ----
    origin,                 \* file id -> record, the source tree
    existing,               \* file id -> record, the target tree
    origin_before,          \* origin as passed to the call
    delta,                  \* the list find_new_content returns
    diff_pc,
    \* ---- LCLT.modify ----
    files,                  \* the delta records handed to modify
    translation_strategies, \* the configured policies
    all_translation_tasks,
    task_positions,
    modify_pc,
    \* ---- TextUtils.extract_text_recursive and set_text_recursive ----
    data_items,             \* a dataList: the list of its items
    skip_keys,              \* the blacklist in force
    allow_fields,           \* the extract_fields in force
    item_texts,             \* the (path, text) pairs extracted from the items
    write_idx,              \* number of pairs the write-back loop has passed
    path_pc

vars == <<tasks, max_chars_per_batch, pc, all_futures, results_map,
          global_request_counter, translation_cache, collected,
          reply_texts, ai_response, api_translations, parse_pc,
          reply_lines, line_idx, loop,
          target_list, source_list, merge_before, merge_pc,
          origin, existing, origin_before, delta, diff_pc,
          files, translation_strategies, all_translation_tasks,
          task_positions, modify_pc,
          data_items, skip_keys, allow_fields, item_texts, write_idx, path_pc>>

pipelineVars == <<tasks, max_chars_per_batch, pc, all_futures, results_map,
                  global_request_counter, translation_cache, collected>>
parseVars == <<reply_texts, ai_response, api_translations, parse_pc,
               reply_lines, line_idx, loop>>
mergeVars == <<target_list, source_list, merge_before, merge_pc>>
diffVars == <<origin, existing, origin_before, delta, diff_pc>>
modifyVars == <<files, translation_strategies, all_translation_tasks,
                task_positions, modify_pc>>

pathVars == <<data_items, skip_keys, allow_fields, item_texts, write_idx, path_pc>>

\* The value of the variables of a component that a specification does not run.
Idle == "idle"
PipelineIdle ==
    /\ tasks = <<>> /\ max_chars_per_batch = 0 /\ pc = Idle
    /\ all_futures = <<>> /\ results_map = <<>>
    /\ global_request_counter = 0 /\ translation_cache = <<>> /\ collected = 0
ParseIdle ==
    /\ reply_texts = <<>> /\ ai_response = <<>> /\ api_translations = <<>>
    /\ parse_pc = Idle
    /\ reply_lines = <<>> /\ line_idx = 0 /\ loop = <<>>
MergeIdle ==
    /\ target_list = <<>> /\ source_list = <<>> /\ merge_before = <<>>
    /\ merge_pc = Idle
DiffIdle ==
    /\ origin = <<>> /\ existing = <<>> /\ origin_before = <<>>
    /\ delta = <<>> /\ diff_pc = Idle
ModifyIdle ==
    /\ files = <<>> /\ translation_strategies = <<>>
    /\ all_translation_tasks = <<>> /\ task_positions = <<>>
    /\ modify_pc = Idle
PathIdle ==
    /\ data_items = <<>> /\ skip_keys = <<>> /\ allow_fields = <<>>
    /\ item_texts = <<>> /\ write_idx = 0
    /\ path_pc = Idle

(***************************************************************************)
(* Generic helpers                                                         *)
(***************************************************************************)
Max(S) == CHOOSE m \in S : \A n \in S : n <= m
Min(S) == CHOOSE m \in S : \A n \in S : m <= n
Range(s) == {s[i] : i \in 1..Len(s)}

RECURSIVE Flatten(_)
Flatten(ss) == IF ss = <<>> THEN <<>> ELSE Head(ss) \o Flatten(Tail(ss))

\* All sequences over S of length 0..n.
SeqsUpTo(S, n) == UNION {[1..k -> S] : k \in 0..n}

(***************************************************************************)
(* Characters                                                              *)
(***************************************************************************)
DigitChars == <<"0", "1", "2", "3", "4", "5", "6", "7", "8", "9">>
IsDigit(c) == c \in Range(DigitChars)
DigitVal(c) == (CHOOSE d \in 1..10 : DigitChars[d] = c) - 1
\* Python's str.strip() and the regex class \s.
IsSpace(c) == c \in {" ", "\t", "\n", "\r"}
\* 生 命 值 上 你 好 世 界: three bytes each in UTF-8, and word characters.
CjkChars == {"u751f", "u547d", "u503c", "u4e0a", "u4f60", "u597d", "u4e16", "u754c"}
\* 、 and ）: three bytes each in UTF-8, not word characters.
CjkPunct == {"u3001", "uff09"}
UpperChars == {"H", "P", "M"}
Lower(c) == CASE c = "H" -> "h" [] c = "P" -> "p" [] c = "M" -> "m" [] OTHER -> c
LowerText(s) == [i \in 1..Len(s) |-> Lower(s[i])]
\* The regex class \w on str patterns: letters, digits, underscore, CJK.
IsWordChar(c) ==
    \/ IsDigit(c) \/ c \in CjkChars \/ c \in UpperChars
    \/ c \in {"h", "p", "m", "a", "b", "t", "_"}
\* len(c.encode('utf-8'))
Utf8Len(c) == IF c \in CjkChars \cup CjkPunct THEN 3 ELSE 1
RECURSIVE Utf8Bytes(_)
Utf8Bytes(s) == IF s = <<>> THEN 0 ELSE Utf8Len(Head(s)) + Utf8Bytes(Tail(s))

\* A task text that is not a str (None, a number, ...).
NotAStr == <<"<not-a-str>">>
IsStr(text) == text # NotAStr
\* Python's `not text or not isinstance(text, str)`.
EmptyOrNotStr(text) == text = <<>> \/ ~IsStr(text)

(***************************************************************************)
(* Translator.apply_terminology                                            *)
(***************************************************************************)
\* terminology.json: "HP" -> 生命值, "HP M" -> 上 (insertion order).
terminology ==
    << <<(<<"H", "P">>), (<<"u751f", "u547d", "u503c">>)>>,
       <<(<<"H", "P", " ", "M">>), (<<"u4e0a">>)>> >>

\* sorted(..., key=len(source), reverse=True): stable, longest first.
RECURSIVE InsertByLen(_, _)
InsertByLen(sorted, item) ==
    IF sorted = <<>> THEN <<item>>
    ELSE IF Len(Head(sorted)[1]) >= Len(item[1])
         THEN <<Head(sorted)>> \o InsertByLen(Tail(sorted), item)
         ELSE <<item>> \o sorted
RECURSIVE sorted_terms(_)
sorted_terms(items) ==
    IF items = <<>> THEN <<>>
    ELSE InsertByLen(sorted_terms(SubSeq(items, 1, Len(items) - 1)),
                     items[Len(items)])

\* term_map.get(matched.lower()): the last entry written under that key.
term_map_get(terms, matched) ==
    LET hits == {i \in 1..Len(terms) : LowerText(terms[i][1]) = LowerText(matched)}
    IN  terms[Max(hits)][2]

\* (?<!\w) source (?!\w), re.IGNORECASE, tried at position pos of text.
TermMatchesAt(text, pos, source) ==
    LET last == pos + Len(source) - 1 IN
    /\ last <= Len(text)
    /\ LowerText(SubSeq(text, pos, last)) = LowerText(source)
    /\ (pos = 1 \/ ~IsWordChar(text[pos - 1]))
    /\ (last = Len(text) \/ ~IsWordChar(text[last + 1]))

\* combined_pattern.sub(replace_term, text): leftmost match, first alternative.
RECURSIVE TermSubFrom(_, _, _)
TermSubFrom(text, pos, terms) ==
    IF pos > Len(text) THEN <<>>
    ELSE LET hits == {i \in 1..Len(terms) : TermMatchesAt(text, pos, terms[i][1])}
         IN  IF hits = {} THEN <<text[pos]>> \o TermSubFrom(text, pos + 1, terms)
             ELSE LET source == terms[Min(hits)][1]
                  IN  term_map_get(terms, SubSeq(text, pos, pos + Len(source) - 1))
                        \o TermSubFrom(text, pos + Len(source), terms)

apply_terminology(text) ==
    IF EmptyOrNotStr(text) THEN text
    ELSE IF terminology = <<>> THEN text
    ELSE TermSubFrom(text, 1, sorted_terms(terminology))

(***************************************************************************)
(* Translator.translate_batch_of_texts: request text and reply parser      *)
(***************************************************************************)
\* The sentinel line "---SPLITTER---", one symbol of the text alphabet.
SPLITTER == "---SPLITTER---"
\* The delimiters "<thinking>" and "</thinking>", one symbol each.
THINK_OPEN == "<thinking>"
THINK_CLOSE == "</thinking>"

\* str(n) for n >= 0.
RECURSIVE IntToChars(_)
IntToChars(n) ==
    IF n < 10 THEN <<DigitChars[n + 1]>>
    ELSE IntToChars(n \div 10) \o <<DigitChars[(n % 10) + 1]>>
\* int(digits)
RECURSIVE CharsToInt(_)
CharsToInt(ds) ==
    IF ds = <<>> THEN 0
    ELSE 10 * CharsToInt(SubSeq(ds, 1, Len(ds) - 1)) + DigitVal(ds[Len(ds)])

\* formatted_texts += f"{idx}. {text}\n---SPLITTER---\n", idx counted from first.
RECURSIVE formatted_texts(_, _)
formatted_texts(texts, first) ==
    IF texts = <<>> THEN <<>>
    ELSE IntToChars(first) \o <<".", " ">> \o Head(texts) \o <<"\n", SPLITTER, "\n">>
           \o formatted_texts(Tail(texts), first + 1)

\* str.strip()
RECURSIVE LStrip(_)
LStrip(s) == IF s # <<>> /\ IsSpace(Head(s)) THEN LStrip(Tail(s)) ELSE s
RECURSIVE RStrip(_)
RStrip(s) ==
    IF s # <<>> /\ IsSpace(s[Len(s)]) THEN RStrip(SubSeq(s, 1, Len(s) - 1)) ELSE s
Strip(s) == RStrip(LStrip(s))

\* re.sub(r'<thinking>.*?</thinking>', '', s, flags=re.DOTALL)
RECURSIVE RemoveThinking(_)
RemoveThinking(s) ==
    IF s = <<>> THEN <<>>
    ELSE LET closes == {j \in 2..Len(s) : s[j] = THINK_CLOSE}
         IN  IF Head(s) = THINK_OPEN /\ closes # {}
             THEN RemoveThinking(SubSeq(s, Min(closes) + 1, Len(s)))
             ELSE <<Head(s)>> \o RemoveThinking(Tail(s))

\* s.split('\n')
RECURSIVE SplitLines(_)
SplitLines(s) ==
    LET breaks == {j \in 1..Len(s) : s[j] = "\n"}
    IN  IF breaks = {} THEN <<s>>
        ELSE <<SubSeq(s, 1, Min(breaks) - 1)>>
               \o SplitLines(SubSeq(s, Min(breaks) + 1, Len(s)))

\* "\n".join(lines)
RECURSIVE JoinLines(_)
JoinLines(lines) ==
    IF lines = <<>> THEN <<>>
    ELSE IF Len(lines) = 1 THEN Head(lines)
    ELSE Head(lines) \o <<"\n">> \o JoinLines(Tail(lines))

\* The class without the full-width bracket and the whitespace.
IsNumberCloser_AsciiAndComma(c) == c \in {".", ")", "u3001"}
\* The character class [\.\)）、\s] that closes the number of a numbered line.
IsNumberCloser(c) == c \in {".", ")", "uff09", "u3001"} \/ IsSpace(c)

\* Length of the leading run of digits of line.
RECURSIVE DigitRun(_)
DigitRun(line) ==
    IF line # <<>> /\ IsDigit(Head(line)) THEN 1 + DigitRun(Tail(line)) ELSE 0

\* re.match(r'^(\d+)[\.\)）、\s]\s*(.+)?$', line) on a stripped line.
NumberedLineMatches(line) ==
    LET d == DigitRun(line)
    IN  d >= 1 /\ Len(line) > d /\ IsNumberCloser(line[d + 1])
\* int(match.group(1))
NumberedLineNumber(line) == CharsToInt(SubSeq(line, 1, DigitRun(line)))
\* match.group(2), <<>> when the group did not take part in the match.
NumberedLineText(line) == LStrip(SubSeq(line, DigitRun(line) + 2, Len(line)))

\* current_num without the conversion to a 0-based index.
current_num_of_OneBased(line) == NumberedLineNumber(line)
\* current_num = int(match.group(1)) - 1
current_num_of(line) == NumberedLineNumber(line) - 1

MapPut(m, k, v) == [x \in (DOMAIN m) \cup {k} |-> IF x = k THEN v ELSE m[x]]

\* The state of the parsing loop before any line.
ParseStart ==
    [has_num |-> FALSE, current_num |-> 0, current_translation |-> <<>>,
     api_translations |-> <<>>]

\* api_translations[current_num] = "\n".join(current_translation).strip()
ParseFlush(st) ==
    MapPut(st.api_translations, st.current_num,
           Strip(JoinLines(st.current_translation)))

\* One pass of the body of `for line in lines` (translator.py 128-159).
ParseLine(st, raw) ==
    LET line == Strip(raw) IN
    IF line = <<>> THEN st
    ELSE IF line = <<SPLITTER>>
    THEN IF st.has_num /\ st.current_translation # <<>>
         THEN [has_num |-> FALSE, current_num |-> 0, current_translation |-> <<>>,
               api_translations |-> ParseFlush(st)]
         ELSE st
    ELSE IF NumberedLineMatches(line)
    THEN [has_num |-> TRUE,
          current_num |-> current_num_of(line),
          current_translation |->
              IF NumberedLineText(line) # <<>>
              THEN <<Strip(NumberedLineText(line))>> ELSE <<>>,
          api_translations |->
              IF st.has_num /\ st.current_translation # <<>>
              THEN ParseFlush(st) ELSE st.api_translations]
    ELSE IF st.has_num
    THEN [st EXCEPT !.current_translation = Append(@, line)]
    ELSE st

RECURSIVE ParseLines(_, _)
ParseLines(st, lines) ==
    IF lines = <<>> THEN st ELSE ParseLines(ParseLine(st, Head(lines)), Tail(lines))

\* The parse of a usable reply (translator.py 115-164): content.strip(), the
\* thinking region removed, the line loop, the flush of the last open entry.
ParseResponse(content) ==
    LET st == ParseLines(ParseStart, SplitLines(RemoveThinking(Strip(content))))
    IN  IF st.has_num /\ st.current_translation # <<>>
        THEN ParseFlush(st) ELSE st.api_translations

(***************************************************************************)
(* Translator.batch_translate_with_multiple_strategies: grouping, terminology  *)
(* substitution and batching (translator.py 280-393)                       *)
(***************************************************************************)
\* strategy_key: the six policy parameters of a task.
strategy_key(task) ==
    <<task.api_key, task.base_url, task.model, task.temperature,
      task.enable_thinking, task.prompt_file>>

\* The keys of strategy_groups, in insertion order.
RECURSIVE GroupKeys(_, _)
GroupKeys(ts, seen) ==
    IF ts = <<>> THEN seen
    ELSE IF \E i \in 1..Len(seen) : seen[i] = strategy_key(Head(ts))
         THEN GroupKeys(Tail(ts), seen)
         ELSE GroupKeys(Tail(ts), Append(seen, strategy_key(Head(ts))))
strategy_groups(ts) == GroupKeys(ts, <<>>)

\* strategy_groups[key]["tasks"]
KeyIs(key, task) == strategy_key(task) = key
group_tasks(ts, key) == SelectSeq(ts, LAMBDA task : KeyIs(key, task))

\* Prompt files on disk and their text; a missing file falls back to prompt.txt.
PromptFiles == [f \in {"prompt.txt", "story.txt"} |->
                  IF f = "prompt.txt" THEN "base prompt" ELSE "story prompt"]
get_prompt(prompt_file) ==
    IF prompt_file \in DOMAIN PromptFiles THEN PromptFiles[prompt_file]
    ELSE IF "prompt.txt" \in DOMAIN PromptFiles THEN PromptFiles["prompt.txt"]
    ELSE ""

\* texts, indices, pre_translated_texts, need_api_translation_flags of a group.
group_texts(gt) == [i \in 1..Len(gt) |-> gt[i].text]
group_indices(gt) == [i \in 1..Len(gt) |-> gt[i].index]
pre_translate(text) ==
    IF EmptyOrNotStr(text) THEN text ELSE apply_terminology(text)
pre_translated_texts(gt) == [i \in 1..Len(gt) |-> pre_translate(gt[i].text)]
need_api_translation(text) == ~EmptyOrNotStr(text)
need_api_translation_flags(gt) ==
    [i \in 1..Len(gt) |-> need_api_translation(gt[i].text)]

\* need_api_indices: the 0-based group positions whose flag is set, ascending.
RECURSIVE TruePositions(_, _)
TruePositions(flags, from) ==
    IF from > Len(flags) THEN <<>>
    ELSE (IF flags[from] THEN <<from - 1>> ELSE <<>>) \o TruePositions(flags, from + 1)
need_api_indices(gt) == TruePositions(need_api_translation_flags(gt), 1)

\* BatchIsFull without the test that the current batch holds a text.
BatchIsFull_NoEmptyTest(current_batch, current_chars, text_chars, limit) ==
    current_chars + text_chars > limit
\* BatchIsFull comparing the bytes already packed, not the bytes after packing.
BatchIsFull_TextNotCounted(current_batch, current_chars, text_chars, limit) ==
    current_batch # <<>> /\ current_chars > limit
\* Whether the scheduler closes the current batch before taking a text of
\* text_chars bytes.
BatchIsFull(current_batch, current_chars, text_chars, limit) ==
    current_batch # <<>> /\ current_chars + text_chars > limit

\* create_batches_for_api_texts: greedy packing by UTF-8 bytes.
RECURSIVE PackBatches(_, _, _, _, _, _)
PackBatches(need, pre, limit, batches, current_batch, current_chars) ==
    IF need = <<>>
    THEN IF current_batch # <<>> THEN Append(batches, current_batch) ELSE batches
    ELSE LET idx == Head(need)
             text == pre[idx + 1]
             text_chars == Utf8Bytes(text)
         IN  IF ~IsStr(text)
             THEN PackBatches(Tail(need), pre, limit, batches, current_batch,
                              current_chars)
             ELSE IF BatchIsFull(current_batch, current_chars, text_chars, limit)
             THEN PackBatches(Tail(need), pre, limit,
                              Append(batches, current_batch), <<idx>>, text_chars)
             ELSE PackBatches(Tail(need), pre, limit, batches,
                              Append(current_batch, idx), current_chars + text_chars)
create_batches_for_api_texts(gt, limit) ==
    PackBatches(need_api_indices(gt), pre_translated_texts(gt), limit, <<>>, <<>>, 0)

\* A submitted batch: the tuple kept in all_futures and the state of its future.
\*   st: "queued" | "lookup" | "count" | "store" | "request" | "done"
NewFuture(key, gt, batch_indices) ==
    [key |-> key,
     group_indices |-> group_indices(gt),
     batch_indices |-> batch_indices,
     pre_translated_texts |-> pre_translated_texts(gt),
     need_api_translation_flags |-> need_api_translation_flags(gt),
     st |-> "queued", retry_count |-> 0, count_read |-> 0, calls |-> 0,
     outcome |-> "none", api_translations |-> <<>>, batch_results |-> <<>>]

RECURSIVE BatchFutures(_, _, _)
BatchFutures(key, gt, batches) ==
    IF batches = <<>> THEN <<>>
    ELSE <<NewFuture(key, gt, Head(batches))>> \o BatchFutures(key, gt, Tail(batches))

\* The branch for a group without texts to translate entering nothing.
PutGroupTexts_Nothing(rm, gt) == rm
\* results_map[task["index"]] = texts[i] for every task of a group that needs
\* no backend call.
RECURSIVE PutGroupTexts(_, _)
PutGroupTexts(rm, gt) ==
    IF gt = <<>> THEN rm
    ELSE PutGroupTexts(MapPut(rm, Head(gt).index, Head(gt).text), Tail(gt))

\* The loop over strategy_groups (translator.py 319-411).
RECURSIVE SubmitGroups(_, _, _, _, _)
SubmitGroups(ts, keys, limit, rm, futures) ==
    IF keys = <<>> THEN [results_map |-> rm, all_futures |-> futures]
    ELSE LET gt == group_tasks(ts, Head(keys))
         IN  IF need_api_indices(gt) = <<>>
             THEN SubmitGroups(ts, Tail(keys), limit, PutGroupTexts(rm, gt), futures)
             ELSE SubmitGroups(ts, Tail(keys), limit, rm,
                      futures \o BatchFutures(Head(keys), gt,
                                     create_batches_for_api_texts(gt, limit)))

(***************************************************************************)
(* Translator.process_batch and the worker pool                            *)
(***************************************************************************)
\* translation_settings.max_retries of config.json.
max_retries == 1
\* translation_settings.max_workers, at its default (translator.py 270).
max_workers == 5

\* batch_texts of process_batch: the pre-translated texts of the batch.
future_batch_texts(f) ==
    [k \in 1..Len(f.batch_indices) |->
        f.pre_translated_texts[f.batch_indices[k] + 1]]

\* cache_key of translate_batch_of_texts.
cache_key(f) ==
    <<future_batch_texts(f), get_prompt(f.key[6]), f.key[1], f.key[2],
      f.key[3], f.key[4], f.key[5]>>

\* reconcile looking the reply up under the group position of the task.
reconcile_ByGroupPosition(f, orig_idx, api_text_idx, api) ==
    IF f.need_api_translation_flags[orig_idx + 1] /\ orig_idx \in DOMAIN api
    THEN api[orig_idx]
    ELSE f.pre_translated_texts[orig_idx + 1]
\* The result for one task of a batch whose backend call succeeded
\* (translator.py 197-206).
reconcile(f, orig_idx, api_text_idx, api) ==
    IF f.need_api_translation_flags[orig_idx + 1]
    THEN IF api_text_idx \in DOMAIN api
         THEN api[api_text_idx]
         ELSE f.pre_translated_texts[orig_idx + 1]
    ELSE f.pre_translated_texts[orig_idx + 1]

\* The try branch of process_batch (translator.py 193-208).
RECURSIVE BuildResults(_, _, _, _, _)
BuildResults(f, rest, api_text_idx, api, results) ==
    IF rest = <<>> THEN results
    ELSE LET orig_idx == Head(rest) IN
         BuildResults(f, Tail(rest),
             IF f.need_api_translation_flags[orig_idx + 1]
             THEN api_text_idx + 1 ELSE api_text_idx,
             api,
             MapPut(results, orig_idx, reconcile(f, orig_idx, api_text_idx, api)))
process_batch_results(f, api) == BuildResults(f, f.batch_indices, 0, api, <<>>)

\* The fallback of a failed batch to the empty string.
fallback_text_Empty(f, orig_idx) == <<>>
\* The text a task of a failed batch resolves to (translator.py 214).
fallback_text(f, orig_idx) == f.pre_translated_texts[orig_idx + 1]
RECURSIVE FallbackResults(_, _, _)
FallbackResults(f, rest, results) ==
    IF rest = <<>> THEN results
    ELSE FallbackResults(f, Tail(rest),
             MapPut(results, Head(rest), fallback_text(f, Head(rest))))

\* process_batch when translate_batch_of_texts returns api.
process_batch_returned(f, api, how) ==
    [f EXCEPT !.st = "done", !.outcome = how, !.api_translations = api,
              !.batch_results = process_batch_results(f, api)]
\* process_batch without its except branch: the exception reaches the future.
process_batch_raised_Uncaught(f) ==
    [f EXCEPT !.st = "done", !.outcome = "exception"]
\* process_batch when translate_batch_of_texts raises: the except branch
\* (translator.py 209-215).
process_batch_raised(f) ==
    [f EXCEPT !.st = "done", !.outcome = "failed",
              !.batch_results = FallbackResults(f, f.batch_indices, <<>>)]

\* The texts a backend returns for a batch: a translation of each text.
Translated(text) == <<"u4f60">> \o text
TranslatedAll(texts) == [k \in 1..Len(texts) |-> Translated(texts[k])]
\* Replies of a backend that answers: the entries numbered from 1, or numbered
\* from 2 (number 1 is missing and the last number is outside 1..n).
BackendReplies(texts) ==
    { formatted_texts(TranslatedAll(texts), 1),
      formatted_texts(TranslatedAll(texts), 2) }

\* ThreadPoolExecutor(max_workers=total_workers)
total_workers == Min({max_workers, Len(tasks)})
Busy(f) == f.st \in {"lookup", "count", "store", "request"}
RunningCount == Cardinality({b \in 1..Len(all_futures) : Busy(all_futures[b])})

\* The task list of a caller: indices count from 0 in list order.
MakeTasks(pairs) ==
    [i \in 1..Len(pairs) |->
        [text |-> pairs[i][1],
         api_key |-> pairs[i][2][1], base_url |-> pairs[i][2][2],
         model |-> pairs[i][2][3], temperature |-> pairs[i][2][4],
         enable_thinking |-> pairs[i][2][5], prompt_file |-> pairs[i][2][6],
         index |-> i - 1]]

\* Two policies: different models, the same prompt.
PolicyKeys ==
    { <<"sk-a", "https://a.example/v1", "deepseek-chat", "0.1", FALSE, "prompt.txt">>,
      <<"sk-b", "https://b.example/v1", "qwen-plus", "0.1", TRUE, "prompt.txt">> }

\* Task texts: the empty text, a, HP (9 bytes once substituted), a non-str.
TextPool == {<<>>, <<"a">>, <<"H", "P">>, NotAStr}
\* Task texts and threshold of the runs with a worker pool: a and HP (1 + 9
\* bytes) share a batch, HP and HP (18 bytes) do not.
WorkerTexts == {<<>>, <<"a">>, <<"H", "P">>}
WorkerThreshold == 10

MaxTasks == 2
MaxBatchTasks == 4
MaxThreshold == 3

\* ---- the calling thread ------------------------------------------------
\* translator.py 266-411: an empty task list returns {}; otherwise the groups
\* are formed and every batch is submitted.
Submit ==
    /\ pc = "start"
    /\ IF tasks = <<>>
       THEN /\ pc' = "returned"
            /\ UNCHANGED <<all_futures, results_map>>
       ELSE LET r == SubmitGroups(tasks, strategy_groups(tasks),
                                  max_chars_per_batch, <<>>, <<>>)
            IN  /\ results_map' = r.results_map
                /\ all_futures' = r.all_futures
                /\ pc' = "collect"
    /\ UNCHANGED <<tasks, max_chars_per_batch, global_request_counter,
                   translation_cache, collected>>
    /\ UNCHANGED <<parseVars, mergeVars, diffVars, modifyVars, pathVars>>

\* PutBatchResults writing at the group position, not at the task index.
RECURSIVE PutBatchResults_GroupPosition(_, _, _)
PutBatchResults_GroupPosition(rm, f, rest) ==
    IF rest = <<>> THEN rm
    ELSE IF Head(rest) \in DOMAIN f.batch_results
    THEN PutBatchResults_GroupPosition(
             MapPut(rm, Head(rest), f.batch_results[Head(rest)]), f, Tail(rest))
    ELSE PutBatchResults_GroupPosition(rm, f, Tail(rest))
\* PutBatchResults writing at the position within the batch.
PutBatchResults_BatchPosition(rm, f, rest) ==
    [t \in DOMAIN rm \cup {k - 1 : k \in 1..Len(rest)} |->
        IF t + 1 \in 1..Len(rest) THEN f.batch_results[rest[t + 1]] ELSE rm[t]]
\* results_map[group_indices[orig_idx]] = translated_text for a batch's results.
RECURSIVE PutBatchResults(_, _, _)
PutBatchResults(rm, f, rest) ==
    IF rest = <<>> THEN rm
    ELSE IF Head(rest) \in DOMAIN f.batch_results
    THEN PutBatchResults(
             MapPut(rm, f.group_indices[Head(rest) + 1], f.batch_results[Head(rest)]),
             f, Tail(rest))
    ELSE PutBatchResults(rm, f, Tail(rest))

\* One pass of the collecting loop (translator.py 417-441): future.result(),
\* an exception of the future caught and reported.
collect_future(rm, f) ==
    IF f.outcome = "exception" THEN rm
    ELSE PutBatchResults(rm, f, f.batch_indices)

Collect ==
    /\ pc = "collect"
    /\ collected < Len(all_futures)
    /\ all_futures[collected + 1].st = "done"
    /\ results_map' = collect_future(results_map, all_futures[collected + 1])
    /\ collected' = collected + 1
    /\ UNCHANGED <<tasks, max_chars_per_batch, pc, all_futures,
                   global_request_counter, translation_cache>>
    /\ UNCHANGED <<parseVars, mergeVars, diffVars, modifyVars, pathVars>>

\* translator.py 443-444
Return ==
    /\ pc = "collect"
    /\ collected = Len(all_futures)
    /\ pc' = "returned"
    /\ UNCHANGED <<tasks, max_chars_per_batch, all_futures, results_map,
                   global_request_counter, translation_cache, collected>>
    /\ UNCHANGED <<parseVars, mergeVars, diffVars, modifyVars, pathVars>>

\* ---- a worker thread running process_batch for future b ----------------
WorkerFrame ==
    /\ UNCHANGED <<tasks, max_chars_per_batch, pc, results_map, collected>>
    /\ UNCHANGED <<parseVars, mergeVars, diffVars, modifyVars, pathVars>>

\* A free worker takes the oldest queued batch and enters process_batch
\* (translator.py 182-191).
TakeBatch(b) ==
    /\ pc = "collect"
    /\ all_futures[b].st = "queued"
    /\ \A c \in 1..(b - 1) : all_futures[c].st # "queued"
    /\ RunningCount < total_workers
    /\ all_futures' = [all_futures EXCEPT ![b].st = "lookup"]
    /\ UNCHANGED <<global_request_counter, translation_cache>>
    /\ WorkerFrame

\* translate_batch_of_texts returns the cached result when there is one
\* (translator.py 72-74).
CacheLookup(b) ==
    /\ all_futures[b].st = "lookup"
    /\ LET f == all_futures[b]
           k == cache_key(f)
       IN  IF k \in DOMAIN translation_cache
           THEN all_futures' = [all_futures EXCEPT
                    ![b] = process_batch_returned(f, translation_cache[k], "cached")]
           ELSE all_futures' = [all_futures EXCEPT ![b].st = "count"]
    /\ UNCHANGED <<global_request_counter, translation_cache>>
    /\ WorkerFrame

\* request_counter.get("count", 0) (translator.py 102, the read)
CounterRead(b) ==
    /\ all_futures[b].st = "count"
    /\ all_futures' = [all_futures EXCEPT ![b].st = "store",
                                          ![b].count_read = global_request_counter]
    /\ UNCHANGED <<global_request_counter, translation_cache>>
    /\ WorkerFrame

\* request_counter["count"] = ... + 1 (translator.py 102, the store)
CounterStore(b) ==
    /\ all_futures[b].st = "store"
    /\ global_request_counter' = all_futures[b].count_read + 1
    /\ all_futures' = [all_futures EXCEPT ![b].st = "request", ![b].count_read = 0]
    /\ UNCHANGED translation_cache
    /\ WorkerFrame

\* The retry test with the last retry left out.
retries_left_OneFewer(retry_count) == retry_count < max_retries
\* Whether the retry loop goes round again after retry_count failures
\* (translator.py 110, 170-175).
retries_left(retry_count) == retry_count <= max_retries

\* A backend call that fails: transport error, non-2xx status or a response
\* without choices[0].message.content (translator.py 169-175).
RequestFails(b) ==
    /\ all_futures[b].st = "request"
    /\ LET f == all_futures[b]
           g == [f EXCEPT !.retry_count = @ + 1, !.calls = @ + 1]
       IN  all_futures' = [all_futures EXCEPT
               ![b] = IF retries_left(g.retry_count) THEN g
                      ELSE process_batch_raised(g)]
    /\ UNCHANGED <<global_request_counter, translation_cache>>
    /\ WorkerFrame

\* A backend call that answers: the reply is parsed, cached and returned
\* (translator.py 112-168).
RequestSucceeds(b) ==
    /\ all_futures[b].st = "request"
    /\ \E content \in BackendReplies(future_batch_texts(all_futures[b])) :
         LET f == [all_futures[b] EXCEPT !.calls = @ + 1]
             api == ParseResponse(content)
         IN  /\ translation_cache' = MapPut(translation_cache, cache_key(f), api)
             /\ all_futures' = [all_futures EXCEPT
                    ![b] = process_batch_returned(f, api, "ok")]
    /\ UNCHANGED global_request_counter
    /\ WorkerFrame

PipelineStart ==
    /\ pc = "start" /\ all_futures = <<>> /\ results_map = <<>>
    /\ global_request_counter = 0 /\ translation_cache = <<>> /\ collected = 0

Init ==
    /\ tasks \in {MakeTasks(p) : p \in SeqsUpTo(WorkerTexts \X PolicyKeys, MaxTasks)}
    /\ max_chars_per_batch = WorkerThreshold
    /\ PipelineStart
    /\ ParseIdle /\ MergeIdle /\ DiffIdle /\ ModifyIdle /\ PathIdle

Next ==
    \/ Submit
    \/ Collect
    \/ Return
    \/ \E b \in 1..Len(all_futures) : TakeBatch(b)
    \/ \E b \in 1..Len(all_futures) : CacheLookup(b)
    \/ \E b \in 1..Len(all_futures) : CounterRead(b)
    \/ \E b \in 1..Len(all_futures) : CounterStore(b)
    \/ \E b \in 1..Len(all_futures) : RequestFails(b)
    \/ \E b \in 1..Len(all_futures) : RequestSucceeds(b)

Spec == Init /\ [][Next]_vars

(***************************************************************************)
(* The call with threads that run and a backend whose calls end            *)
(***************************************************************************)
\* One or two tasks that need the backend.
RetryTaskLists ==
    LET pairs == {<<"a">>, <<"H", "P">>} \X PolicyKeys
    IN  {MakeTasks(p) : p \in [1..1 -> pairs] \cup [1..2 -> pairs]}

InitRetry ==
    /\ tasks \in RetryTaskLists
    /\ max_chars_per_batch = WorkerThreshold
    /\ PipelineStart
    /\ ParseIdle /\ MergeIdle /\ DiffIdle /\ ModifyIdle /\ PathIdle

\* The calling thread and every worker thread keep running, and a backend
\* call ends, with an answer or with an error (the request has a timeout,
\* translator.py 106, 112).
Fairness ==
    /\ WF_vars(Submit) /\ WF_vars(Collect) /\ WF_vars(Return)
    /\ WF_vars(\E b \in 1..Len(all_futures) : TakeBatch(b))
    /\ WF_vars(\E b \in 1..Len(all_futures) : CacheLookup(b))
    /\ WF_vars(\E b \in 1..Len(all_futures) : CounterRead(b))
    /\ WF_vars(\E b \in 1..Len(all_futures) : CounterStore(b))
    /\ WF_vars(\E b \in 1..Len(all_futures) : RequestFails(b) \/ RequestSucceeds(b))

SpecRetry == InitRetry /\ [][Next]_vars /\ Fairness

(***************************************************************************)
(* The call on task lists that mix texts to translate with empty texts and *)
(* values that are no str                                                  *)
(***************************************************************************)
MixedTaskLists ==
    LET pairs == {<<>>, <<"a">>, NotAStr} \X PolicyKeys
    IN  {MakeTasks(p) : p \in [1..1 -> pairs] \cup [1..2 -> pairs]}

InitMixed ==
    /\ tasks \in MixedTaskLists
    /\ max_chars_per_batch = WorkerThreshold
    /\ PipelineStart
    /\ ParseIdle /\ MergeIdle /\ DiffIdle /\ ModifyIdle /\ PathIdle

SpecMixed == InitMixed /\ [][Next]_vars

(***************************************************************************)
(* The scheduler alone: grouping and batching of any task list             *)
(***************************************************************************)
InitBatch ==
    /\ tasks \in {MakeTasks(p) : p \in SeqsUpTo(TextPool \X PolicyKeys, MaxBatchTasks)}
    /\ max_chars_per_batch \in 1..MaxThreshold
    /\ PipelineStart
    /\ ParseIdle /\ MergeIdle /\ DiffIdle /\ ModifyIdle /\ PathIdle

NextBatch == Submit

SpecBatch == InitBatch /\ [][NextBatch]_vars

(***************************************************************************)
(* The reply parser alone, on replies in the numbered-list format          *)
(***************************************************************************)
MaxReplyChars == 3
MaxReplyTexts == 2
\* The characters of the texts of a reply: no line break.
ReplyAlphabet == {"u4f60", " ", "1", ".", SPLITTER, THINK_OPEN, THINK_CLOSE}

\* s cut into Cardinality(cuts) + 1 pieces, a cut at p being between s[p] and
\* s[p + 1].
RECURSIVE CutAt(_, _, _)
CutAt(s, cuts, from) ==
    LET later == {p \in cuts : p >= from}
    IN  IF later = {} THEN <<SubSeq(s, from, Len(s))>>
        ELSE <<SubSeq(s, from, Min(later))>> \o CutAt(s, cuts, Min(later) + 1)

\* Every list of 1..MaxReplyTexts non-empty texts of MaxReplyChars characters
\* together, and the list 你好, 世界.
ReplyTextLists ==
    UNION { { CutAt(s, cuts, 1) :
                cuts \in {c \in SUBSET (1..(Len(s) - 1)) : Cardinality(c) < MaxReplyTexts} } :
            s \in SeqsUpTo(ReplyAlphabet, MaxReplyChars) \ {<<>>} }
\* The reply of section 8: "1. 你好 / ---SPLITTER--- / 2. 世界 / ---SPLITTER---".
ExampleReplyTexts == << <<"u4f60", "u597d">>, <<"u4e16", "u754c">> >>

InitParse ==
    /\ reply_texts \in ReplyTextLists \cup {ExampleReplyTexts}
    /\ ai_response = formatted_texts(reply_texts, 1)
    /\ api_translations = <<>>
    /\ parse_pc = "reply"
    /\ reply_lines = <<>> /\ line_idx = 0 /\ loop = <<>>
    /\ PipelineIdle /\ MergeIdle /\ DiffIdle /\ ModifyIdle /\ PathIdle

\* translator.py 115-168 on the reply.
Parse ==
    /\ parse_pc = "reply"
    /\ api_translations' = ParseResponse(ai_response)
    /\ parse_pc' = "parsed"
    /\ UNCHANGED <<reply_texts, ai_response, reply_lines, line_idx, loop>>
    /\ UNCHANGED <<pipelineVars, mergeVars, diffVars, modifyVars, pathVars>>

NextParse == Parse

SpecParse == InitParse /\ [][NextParse]_vars

(***************************************************************************)
(* The line loop of the reply parser, line by line                         *)
(***************************************************************************)
MaxLineChars == 3
\* The lines of a reply: every line of at most MaxLineChars characters of
\* LineAlphabet, the sentinel, and a numbered line for each closing character
\* of the class that is not in the alphabet.
LineAlphabet == {"1", ".", " ", "u4f60"}
LinePool ==
    SeqsUpTo(LineAlphabet, MaxLineChars)
        \cup { <<SPLITTER>>, <<"1", ")", "u4f60">>, <<"1", "uff09", "u4f60">>,
               <<"1", "u3001", "u4f60">>, <<"2", ".", "u4f60">> }

\* A reply of one line or of two.
InitLines ==
    /\ ai_response \in LinePool \cup {a \o <<"\n">> \o b : a, b \in LinePool}
    /\ reply_texts = <<>>
    /\ api_translations = <<>>
    /\ parse_pc = "reply"
    /\ reply_lines = <<>> /\ line_idx = 0 /\ loop = <<>>
    /\ PipelineIdle /\ MergeIdle /\ DiffIdle /\ ModifyIdle /\ PathIdle

\* translator.py 115-126: the reply is stripped, cut into lines, and the loop
\* variables are set.
SplitReply ==
    /\ parse_pc = "reply"
    /\ reply_lines' = SplitLines(RemoveThinking(Strip(ai_response)))
    /\ line_idx' = 0
    /\ loop' = ParseStart
    /\ parse_pc' = "lines"
    /\ UNCHANGED <<reply_texts, ai_response, api_translations>>
    /\ UNCHANGED <<pipelineVars, mergeVars, diffVars, modifyVars, pathVars>>

\* One pass of `for line in lines` (translator.py 128-159).
NextLine ==
    /\ parse_pc = "lines"
    /\ line_idx < Len(reply_lines)
    /\ loop' = ParseLine(loop, reply_lines[line_idx + 1])
    /\ line_idx' = line_idx + 1
    /\ UNCHANGED <<reply_texts, ai_response, api_translations, parse_pc, reply_lines>>
    /\ UNCHANGED <<pipelineVars, mergeVars, diffVars, modifyVars, pathVars>>

\* After the loop: the last open entry is flushed and the map is returned
\* (translator.py 161-168).
EndOfLines ==
    /\ parse_pc = "lines"
    /\ line_idx = Len(reply_lines)
    /\ api_translations' =
           IF loop.has_num /\ loop.current_translation # <<>>
           THEN ParseFlush(loop) ELSE loop.api_translations
    /\ parse_pc' = "parsed"
    /\ UNCHANGED <<reply_texts, ai_response, reply_lines, line_idx, loop>>
    /\ UNCHANGED <<pipelineVars, mergeVars, diffVars, modifyVars, pathVars>>

NextLines == SplitReply \/ NextLine \/ EndOfLines

SpecLines == InitLines /\ [][NextLines]_vars

(***************************************************************************)
(* FileWriter.merge_datalists                                              *)
(***************************************************************************)
\* An item of a dataList: its "id" (a JSON scalar, null, or no "id" key at
\* all) and the rest of its content.
AbsentId == "<no id key>"
NullId == "<null>"
\* `"id" in item and item["id"] is not None`
HasId(item) == item.id # AbsentId /\ item.id # NullId

\* The index of the target's ids with no id entered.
target_ids_of_Empty(list) == {}
\* target_ids: the non-null ids of the target list (writer.py 93-96).
target_ids_of(list) == {list[i].id : i \in {j \in 1..Len(list) : HasId(list[j])}}

\* Whether the loop appends source_item, given the running set target_ids
\* (writer.py 100-106).
merge_appends(source_item, target_ids) ==
    IF HasId(source_item) THEN source_item.id \notin target_ids ELSE TRUE

\* The running set after source_item, when the id of an appended item is not
\* added to it.
merge_ids_after_NotAdded(source_item, target_ids) == target_ids
\* The running set after source_item (writer.py 103).
merge_ids_after(source_item, target_ids) ==
    IF HasId(source_item) /\ source_item.id \notin target_ids
    THEN target_ids \cup {source_item.id} ELSE target_ids

\* The loop over source_list (writer.py 99-106).
RECURSIVE MergeLoop(_, _, _)
MergeLoop(target, source, target_ids) ==
    IF source = <<>> THEN target
    ELSE MergeLoop(
             IF merge_appends(Head(source), target_ids)
             THEN Append(target, Head(source)) ELSE target,
             Tail(source),
             merge_ids_after(Head(source), target_ids))

merge_datalists(target, source) == MergeLoop(target, source, target_ids_of(target))

MaxItems == 2
\* Items: without an id key, with a null id, two with id 1 that differ in
\* content, one with id 2.
ItemPool ==
    { [id |-> AbsentId, text |-> "a"], [id |-> NullId, text |-> "a"],
      [id |-> "1", text |-> "a"], [id |-> "1", text |-> "b"],
      [id |-> "2", text |-> "a"] }
ItemLists == SeqsUpTo(ItemPool, MaxItems)
\* No two items of the list share a non-null id.
DistinctIds(list) ==
    \A i, j \in 1..Len(list) :
        (i # j /\ HasId(list[i]) /\ HasId(list[j])) => list[i].id # list[j].id

InitMerge ==
    /\ target_list \in {t \in ItemLists : DistinctIds(t)}
    /\ source_list = <<>>
    /\ merge_before = <<>>
    /\ merge_pc = "start"
    /\ PipelineIdle /\ ParseIdle /\ DiffIdle /\ ModifyIdle /\ PathIdle

\* merge_datalists(target_list, S) for a source list S; the target list is
\* extended in place.
Merge ==
    /\ merge_pc \in {"start", "merged"}
    /\ \E S \in ItemLists :
         /\ source_list' = S
         /\ merge_before' = target_list
         /\ target_list' = merge_datalists(target_list, S)
    /\ merge_pc' = IF merge_pc = "start" THEN "merged" ELSE "merged twice"
    /\ UNCHANGED <<pipelineVars, parseVars, diffVars, modifyVars, pathVars>>

\* The same source list merged once more, as when putback runs again with the
\* same delta.
MergeAgain ==
    /\ merge_pc = "merged"
    /\ merge_before' = target_list
    /\ target_list' = merge_datalists(target_list, source_list)
    /\ merge_pc' = "remerged"
    /\ UNCHANGED source_list
    /\ UNCHANGED <<pipelineVars, parseVars, diffVars, modifyVars, pathVars>>

NextMerge == Merge \/ MergeAgain

SpecMerge == InitMerge /\ [][NextMerge]_vars

(***************************************************************************)
(* TextExtractor.find_new_content                                          *)
(***************************************************************************)
\* The content of a record: None for a file that is not JSON, else an object
\* that may hold a dataList and may hold other keys.
NullContent ==
    [t |-> "null", other_keys |-> FALSE, has_dataList |-> FALSE, dataList |-> <<>>]
DictContent(other_keys, has_dataList, dataList) ==
    [t |-> "dict", other_keys |-> other_keys, has_dataList |-> has_dataList,
     dataList |-> dataList]
ListContent(dataList) == DictContent(FALSE, TRUE, dataList)
\* `not content or len(content) == 0` (extractor.py 76)
content_is_empty(content) ==
    content.t = "null" \/ (~content.other_keys /\ ~content.has_dataList)

\* The file ids, in the order the record maps are iterated.
FileIds == <<"f1", "f2">>
FileRecord(file_id, content) == [filename |-> file_id, content |-> content]

\* The test for a new file that takes every file for new.
is_new_file_Always(file_id, existing_map) == TRUE
\* `(file_id not in existing) or (existing[file_id]["content"] is None)`
is_new_file(file_id, existing_map) ==
    file_id \notin DOMAIN existing_map \/ existing_map[file_id].content.t = "null"

\* existing_ids: the non-null ids of the existing dataList (extractor.py 99-102).
existing_ids_of(list) == {list[i].id : i \in {j \in 1..Len(list) : HasId(list[j])}}

\* The test for a new item without the test that the item has an id.
is_new_item_AnyId(item, existing_ids) == item.id \notin existing_ids
\* Whether an origin item goes into new_items (extractor.py 107-109).
is_new_item(item, existing_ids) == HasId(item) /\ item.id \notin existing_ids

NewItemWith(existing_ids, item) == is_new_item(item, existing_ids)
\* new_items (extractor.py 105-110)
new_items_of(origin_data_list, existing_data_list) ==
    SelectSeq(origin_data_list,
              LAMBDA item : NewItemWith(existing_ids_of(existing_data_list), item))

\* new_item = origin_file.copy(); new_item["rel_path"] = file_id
delta_record(origin_file, file_id, content) ==
    [filename |-> origin_file.filename, content |-> content, rel_path |-> file_id]

\* One pass of the loop over origin (extractor.py 74-116) for file_id: what is
\* appended to result, and the content origin's record has afterwards. The
\* copy of the record is shallow, so the assignment of new_items to
\* new_item["content"]["dataList"] writes the content object of origin's record.
diff_file(file_id, origin_map, existing_map) ==
    LET origin_file == origin_map[file_id]
        unchanged == [emit |-> <<>>, content |-> origin_file.content]
    IN  IF content_is_empty(origin_file.content) THEN unchanged
        ELSE IF is_new_file(file_id, existing_map)
        THEN [emit |-> <<delta_record(origin_file, file_id, origin_file.content)>>,
              content |-> origin_file.content]
        ELSE LET existing_file == existing_map[file_id] IN
             IF ~origin_file.content.has_dataList \/ ~existing_file.content.has_dataList
             THEN unchanged
             ELSE IF Len(origin_file.content.dataList) = Len(existing_file.content.dataList)
             THEN unchanged
             ELSE LET new_items == new_items_of(origin_file.content.dataList,
                                                existing_file.content.dataList)
                      written == [origin_file.content EXCEPT !.dataList = new_items]
                  IN  IF new_items # <<>>
                      THEN [emit |-> <<delta_record(origin_file, file_id, written)>>,
                            content |-> written]
                      ELSE unchanged

RECURSIVE DiffLoop(_, _, _, _)
DiffLoop(ids, origin_map, existing_map, result) ==
    IF ids = <<>> THEN [result |-> result, origin |-> origin_map]
    ELSE IF Head(ids) \notin DOMAIN origin_map
    THEN DiffLoop(Tail(ids), origin_map, existing_map, result)
    ELSE LET d == diff_file(Head(ids), origin_map, existing_map)
         IN  DiffLoop(Tail(ids),
                      [origin_map EXCEPT ![Head(ids)].content = d.content],
                      existing_map, result \o d.emit)

\* find_new_content(origin, existing): the returned list and origin afterwards.
find_new_content(origin_map, existing_map) ==
    DiffLoop(FileIds, origin_map, existing_map, <<>>)

MaxDiffItems == 2
\* The contents of file f1: None, {}, an object without dataList, and an object
\* with each dataList of at most MaxDiffItems items, with or without other keys.
ContentPool ==
    {NullContent, DictContent(FALSE, FALSE, <<>>), DictContent(TRUE, FALSE, <<>>)}
        \cup {ListContent(l) : l \in SeqsUpTo(ItemPool, MaxDiffItems)}
\* The contents of file f2 in the source tree and in the target tree.
OriginPool2 == {ListContent(<<[id |-> "2", text |-> "a"], [id |-> NullId, text |-> "a"]>>)}
ExistingPool2 == {NullContent, ListContent(<<[id |-> "1", text |-> "b"]>>)}

\* A record map: f1 and f2 each absent or with a content of its pool.
RecordMaps(pool1, pool2) ==
    UNION { { [f \in D |-> FileRecord(f, IF f = "f1" THEN c1 ELSE c2)] :
                c1 \in pool1, c2 \in pool2 } : D \in SUBSET {"f1", "f2"} }

InitDiff ==
    /\ origin \in RecordMaps(ContentPool, OriginPool2)
    /\ existing \in RecordMaps(ContentPool, ExistingPool2)
    /\ origin_before = origin
    /\ delta = <<>>
    /\ diff_pc = "start"
    /\ PipelineIdle /\ ParseIdle /\ MergeIdle /\ ModifyIdle /\ PathIdle

\* delta = find_new_content(origin, existing) (main.py 47)
FindNewContent ==
    /\ diff_pc = "start"
    /\ LET r == find_new_content(origin, existing)
       IN  /\ delta' = r.result
           /\ origin' = r.origin
    /\ diff_pc' = "diffed"
    /\ UNCHANGED <<existing, origin_before>>
    /\ UNCHANGED <<pipelineVars, parseVars, mergeVars, modifyVars, pathVars>>

\* find_new_content(origin, origin): both arguments the same record map.
FindNewContentSelf ==
    /\ diff_pc = "start"
    /\ LET r == find_new_content(origin, origin)
       IN  /\ delta' = r.result
           /\ origin' = r.origin
           /\ existing' = r.origin
    /\ diff_pc' = "diffed self"
    /\ UNCHANGED origin_before
    /\ UNCHANGED <<pipelineVars, parseVars, mergeVars, modifyVars, pathVars>>

NextDiff == FindNewContent \/ FindNewContentSelf

SpecDiff == InitDiff /\ [][NextDiff]_vars

(***************************************************************************)
(* FileWriter.putback on the target tree, and the next run's diff          *)
(***************************************************************************)
\* target_content of putback: the target file's JSON, or {"dataList": []}
\* when there is no such file or it is no JSON (writer.py 60-70).
target_content_of(existing_map, rel_path) ==
    IF rel_path \in DOMAIN existing_map /\ existing_map[rel_path].content.t # "null"
    THEN existing_map[rel_path].content
    ELSE ListContent(<<>>)

\* putback writing the delta's dataList over the target's.
putback_file_Overwrite(existing_map, x) ==
    IF ~x.content.has_dataList THEN existing_map
    ELSE [f \in DOMAIN existing_map \cup {x.rel_path} |->
            IF f = x.rel_path
            THEN FileRecord(x.rel_path,
                     [target_content_of(existing_map, x.rel_path) EXCEPT
                         !.has_dataList = TRUE, !.dataList = x.content.dataList])
            ELSE existing_map[f]]
\* One pass of putback's loop (writer.py 46-86): the target tree after the
\* file of delta record x is written.
putback_file(existing_map, x) ==
    IF ~x.content.has_dataList THEN existing_map
    ELSE LET target_content == target_content_of(existing_map, x.rel_path)
             target_datalist ==
                 IF target_content.has_dataList THEN target_content.dataList ELSE <<>>
             merged_datalist == merge_datalists(target_datalist, x.content.dataList)
         IN  [f \in DOMAIN existing_map \cup {x.rel_path} |->
                 IF f = x.rel_path
                 THEN FileRecord(x.rel_path,
                          [target_content EXCEPT !.has_dataList = TRUE,
                                                 !.dataList = merged_datalist])
                 ELSE existing_map[f]]

RECURSIVE putback(_, _)
putback(existing_map, translated_files) ==
    IF translated_files = <<>> THEN existing_map
    ELSE putback(putback_file(existing_map, Head(translated_files)),
                 Tail(translated_files))

\* The contents with a dataList of at most MaxDiffItems items.
ListContentPool == {ListContent(l) : l \in SeqsUpTo(ItemPool, MaxDiffItems)}

InitConverge ==
    /\ origin \in RecordMaps(ListContentPool, OriginPool2)
    /\ existing \in RecordMaps(ListContentPool,
                               {ListContent(<<[id |-> "1", text |-> "b"]>>)})
    /\ origin_before = origin
    /\ delta = <<>>
    /\ diff_pc = "start"
    /\ PipelineIdle /\ ParseIdle /\ MergeIdle /\ ModifyIdle /\ PathIdle

\* self.writer.putback(translated, "output_direction", target_dir) (main.py 98), on a delta
\* whose texts the translation left as they were.
Putback ==
    /\ diff_pc = "diffed"
    /\ existing' = putback(existing, delta)
    /\ diff_pc' = "merged"
    /\ UNCHANGED <<origin, origin_before, delta>>
    /\ UNCHANGED <<pipelineVars, parseVars, mergeVars, modifyVars, pathVars>>

\* The next run: both trees are read again and diffed (main.py 39-47).
Rerun ==
    /\ diff_pc = "merged"
    /\ LET r == find_new_content(origin_before, existing)
       IN  /\ delta' = r.result
           /\ origin' = r.origin
    /\ diff_pc' = "rerun"
    /\ UNCHANGED <<existing, origin_before>>
    /\ UNCHANGED <<pipelineVars, parseVars, mergeVars, modifyVars, pathVars>>

\* A second diff of the record maps in memory, origin as the first diff left it.
DiffAgain ==
    /\ diff_pc = "merged"
    /\ LET r == find_new_content(origin, existing)
       IN  /\ delta' = r.result
           /\ origin' = r.origin
    /\ diff_pc' = "diffed again"
    /\ UNCHANGED <<existing, origin_before>>
    /\ UNCHANGED <<pipelineVars, parseVars, mergeVars, modifyVars, pathVars>>

NextConverge == FindNewContent \/ Putback \/ Rerun \/ DiffAgain

SpecConverge == InitConverge /\ [][NextConverge]_vars

(***************************************************************************)
(* LCLT.modify: collection of the translation tasks                        *)
(***************************************************************************)
\* JSON values: a tag and a payload. An object is the sequence of its
\* <<key, value>> pairs in insertion order.
JStr(text) == [t |-> "str", v |-> text]
JNum(n) == [t |-> "num", v |-> n]
JList(items) == [t |-> "list", v |-> items]
JDict(pairs) == [t |-> "dict", v |-> pairs]
\* Path elements: an object key or a list index.
PKey(key) == [t |-> "k", v |-> key]
PIdx(index) == [t |-> "i", v |-> index]

\* The test of an allow-list that is never given.
fields_given_Never(extract_fields) == FALSE
\* `if extract_fields`: None and the empty list are both false.
fields_given(extract_fields) == extract_fields # <<>>

\* TextUtils.extract_text_recursive: the <<path, text>> pairs in visiting order.
RECURSIVE extract_text_recursive(_, _, _, _)
extract_text_recursive(data, blacklist, current_path, extract_fields) ==
    IF data.t = "dict"
    THEN Flatten([n \in 1..Len(data.v) |->
            LET key == data.v[n][1]
                value == data.v[n][2]
                new_path == Append(current_path, PKey(key))
            IN  IF key \in Range(blacklist) THEN <<>>
                ELSE IF /\ fields_given(extract_fields)
                        /\ key \in Range(extract_fields)
                        /\ value.t = "str"
                THEN << <<new_path, value.v>> >>
                ELSE extract_text_recursive(value, blacklist, new_path, extract_fields)])
    ELSE IF data.t = "list"
    THEN Flatten([n \in 1..Len(data.v) |->
            extract_text_recursive(data.v[n], blacklist,
                                   Append(current_path, PIdx(n - 1)), extract_fields)])
    ELSE IF data.t = "str" /\ ~fields_given(extract_fields)
    THEN << <<current_path, data.v>> >>
    ELSE <<>>

\* fnmatch.fnmatch over names and patterns whose only wildcard is "*".
RECURSIVE fnmatch(_, _)
fnmatch(name, pattern) ==
    IF pattern = <<>> THEN name = <<>>
    ELSE IF Head(pattern) = "*"
    THEN fnmatch(name, Tail(pattern)) \/ (name # <<>> /\ fnmatch(Tail(name), pattern))
    ELSE name # <<>> /\ Head(name) = Head(pattern) /\ fnmatch(Tail(name), Tail(pattern))

\* os.path.basename: what follows the last "/".
RECURSIVE basename(_)
basename(path) ==
    IF \E i \in 1..Len(path) : path[i] = "/" THEN basename(Tail(path)) ELSE path

\* dict.get(key, default) on a record that lists the keys it has in `keys`.
Get(dict, key, default) == IF key \in dict.keys THEN dict[key] ELSE default

default_priority == 999
priority_of(strategy) == Get(strategy, "priority", default_priority)

\* sorted(strategies, key=priority): a stable sort.
RECURSIVE InsertByPriority(_, _)
InsertByPriority(strategy, sorted) ==
    IF sorted = <<>> THEN <<strategy>>
    ELSE IF priority_of(strategy) < priority_of(Head(sorted))
    THEN <<strategy>> \o sorted
    ELSE <<Head(sorted)>> \o InsertByPriority(strategy, Tail(sorted))
RECURSIVE sorted_by_priority(_)
sorted_by_priority(strategies) ==
    IF strategies = <<>> THEN <<>>
    ELSE InsertByPriority(strategies[Len(strategies)],
                          sorted_by_priority(SubSeq(strategies, 1, Len(strategies) - 1)))

\* The copy carrying the strategy's own extract_fields whatever the entry has.
strategy_copy_OwnFields(strategy, pattern_config) ==
    [strategy EXCEPT
        !.keys = @ \cup {"extract_fields"},
        !.extract_fields = Get(strategy, "extract_fields", <<>>)]
\* strategy_copy: the strategy with extract_fields set from the pattern entry,
\* or from the strategy when the entry has none (None when neither has).
strategy_copy(strategy, pattern_config) ==
    [strategy EXCEPT
        !.keys = @ \cup {"extract_fields"},
        !.extract_fields = Get(pattern_config, "extract_fields",
                               Get(strategy, "extract_fields", <<>>))]

\* The copies one strategy contributes: one per matching pattern entry.
matches_of(strategy, file_path) ==
    LET file_patterns == Get(strategy, "file_patterns", <<>>)
    IN  Flatten([n \in 1..Len(file_patterns) |->
            LET pattern == Get(file_patterns[n], "pattern", <<>>)
            IN  IF fnmatch(file_path, pattern) \/ fnmatch(basename(file_path), pattern)
                THEN <<strategy_copy(strategy, file_patterns[n])>>
                ELSE <<>>])

\* ConfigLoader.get_strategies_for_file
get_strategies_for_file(strategies, file_path) ==
    LET sorted_strategies == sorted_by_priority(strategies)
        matching_strategies ==
            Flatten([n \in 1..Len(sorted_strategies) |->
                        matches_of(sorted_strategies[n], file_path)])
        defaults == SelectSeq(sorted_strategies,
                              LAMBDA st : Get(st, "name", "") = "default")
    IN  IF matching_strategies # <<>> THEN matching_strategies
        ELSE IF defaults # <<>> THEN <<Head(defaults)>>
        ELSE <<>>

\* The models of the configuration, by name.
models ==
    [m1 |-> [keys |-> {"api_key", "base_url", "model", "temperature", "enable_thinking"},
             api_key |-> "k1", base_url |-> "u1", model |-> "M1",
             temperature |-> "0.3", enable_thinking |-> TRUE],
     m2 |-> [keys |-> {"api_key", "model"},
             api_key |-> "k2", base_url |-> "", model |-> "M2",
             temperature |-> "", enable_thinking |-> FALSE]]
NoModelConfig ==
    [keys |-> {}, api_key |-> "", base_url |-> "", model |-> "",
     temperature |-> "", enable_thinking |-> FALSE]
\* ConfigLoader.get_model_config: models.get(model_name, {})
get_model_config(model_name) ==
    IF model_name \in DOMAIN models THEN models[model_name] ELSE NoModelConfig

\* The task modify builds for a text a strategy yields.
task_of(strategy, text, index) ==
    LET model_config == get_model_config(Get(strategy, "model", "deepseek"))
    IN  [text |-> text,
         api_key |-> Get(model_config, "api_key", ""),
         base_url |-> Get(model_config, "base_url", ""),
         model |-> Get(model_config, "model", "deepseek-chat"),
         temperature |-> Get(model_config, "temperature", "0.1"),
         enable_thinking |-> Get(model_config, "enable_thinking", FALSE),
         prompt_file |-> Get(strategy, "prompt_file", "prompt.txt"),
         index |-> index]

\* The keys whose branches extraction skips.
blacklist == <<"id">>

\* `"content" not in file or "dataList" not in file["content"]`
file_is_skipped(file) ==
    "content" \notin file.keys \/ ~file.content.has_dataList

\* The (file, item, strategy, extracted pair) combinations of the nested loops
\* of modify, in the order the loops visit them.
extractions_of_file(strategies, file, i) ==
    IF file_is_skipped(file) THEN <<>>
    ELSE LET resolved == get_strategies_for_file(strategies, Get(file, "rel_path", <<>>))
             data_list == file.content.dataList
         IN  Flatten([j \in 1..Len(data_list) |->
                Flatten([k \in 1..Len(resolved) |->
                    LET extracted ==
                            extract_text_recursive(data_list[j], blacklist,
                                <<PIdx(j - 1)>>,
                                Get(resolved[k], "extract_fields", <<>>))
                    IN  [e \in 1..Len(extracted) |->
                            [i |-> i, path |-> extracted[e][1],
                             text |-> extracted[e][2], strategy |-> resolved[k]]]])])

\* The test for a field already taken, never true.
already_processed_Never(field_path_tuple, processed_fields) == FALSE
\* `field_path_tuple in processed_fields`
already_processed(field_path_tuple, processed_fields) ==
    field_path_tuple \in processed_fields

\* The body of the innermost loop over a sequence of extractions.
RECURSIVE collect_tasks(_, _, _, _)
collect_tasks(extractions, task_list, positions, processed_fields) ==
    IF extractions = <<>> THEN [tasks |-> task_list, positions |-> positions]
    ELSE LET x == Head(extractions)
             field_path_tuple == <<x.i, x.path>>
         IN  IF already_processed(field_path_tuple, processed_fields)
             THEN collect_tasks(Tail(extractions), task_list, positions,
                                processed_fields)
             ELSE collect_tasks(Tail(extractions),
                      Append(task_list, task_of(x.strategy, x.text, Len(task_list))),
                      Append(positions, field_path_tuple),
                      processed_fields \cup {field_path_tuple})

\* The first step of modify for a list of files.
collected_tasks(strategies, file_list) ==
    collect_tasks(Flatten([n \in 1..Len(file_list) |->
                              extractions_of_file(strategies, file_list[n], n - 1)]),
                  <<>>, <<>>, {})

StrategyKeys == {"name", "priority", "model", "prompt_file", "extract_fields",
                 "file_patterns"}
PatternAny == [keys |-> {"pattern"}, pattern |-> <<"*">>, extract_fields |-> <<>>]
PatternDirContent ==
    [keys |-> {"pattern", "extract_fields"}, pattern |-> <<"d", "/", "*">>,
     extract_fields |-> <<"content">>]
PatternNameDesc ==
    [keys |-> {"pattern", "extract_fields"}, pattern |-> <<"x">>,
     extract_fields |-> <<"desc">>]
\* The strategies a configuration is drawn from: one matching every file and
\* taking the content fields; one of the same priority with two pattern
\* entries; one with only a name and a pattern, taking every string; the default.
StrategyPool ==
    { [keys |-> StrategyKeys, name |-> "story", priority |-> 1, model |-> "m1",
       prompt_file |-> "p1", extract_fields |-> <<"content">>,
       file_patterns |-> <<PatternAny>>],
      [keys |-> StrategyKeys \ {"extract_fields"}, name |-> "ui", priority |-> 1,
       model |-> "m2", prompt_file |-> "p2", extract_fields |-> <<>>,
       file_patterns |-> <<PatternDirContent, PatternNameDesc>>],
      [keys |-> {"name", "file_patterns"}, name |-> "all", priority |-> 0,
       model |-> "", prompt_file |-> "", extract_fields |-> <<>>,
       file_patterns |-> <<PatternAny>>],
      [keys |-> StrategyKeys \ {"file_patterns"}, name |-> "default", priority |-> 2,
       model |-> "nomodel", prompt_file |-> "p2", extract_fields |-> <<"desc">>,
       file_patterns |-> <<>>] }

ItemContentDesc == JDict(<< <<"id", JStr("1")>>, <<"content", JStr("a")>>,
                            <<"desc", JStr("b")>> >>)
ItemNested == JDict(<< <<"content", JList(<<JStr("a"), JNum(1)>>)>>,
                       <<"sub", JDict(<< <<"content", JStr("c")>> >>)>> >>)
\* The files modify is given: two under d/x, one at y, one without rel_path,
\* one whose content has no dataList.
FilePool ==
    { [keys |-> {"content", "rel_path"}, rel_path |-> <<"d", "/", "x">>,
       content |-> ListContent(<<ItemContentDesc, ItemNested>>)],
      [keys |-> {"content", "rel_path"}, rel_path |-> <<"y">>,
       content |-> ListContent(<<ItemNested, JStr("b")>>)],
      [keys |-> {"content"}, rel_path |-> <<>>,
       content |-> ListContent(<<ItemContentDesc>>)],
      [keys |-> {"content", "rel_path"}, rel_path |-> <<"y">>,
       content |-> DictContent(TRUE, FALSE, <<>>)] }
MaxStrategies == 2
MaxFiles == 2

InitModify ==
    /\ files \in SeqsUpTo(FilePool, MaxFiles)
    /\ translation_strategies \in SeqsUpTo(StrategyPool, MaxStrategies)
    /\ all_translation_tasks = <<>>
    /\ task_positions = <<>>
    /\ modify_pc = "start"
    /\ PipelineIdle /\ ParseIdle /\ MergeIdle /\ DiffIdle /\ PathIdle

\* The first step of modify (main.py 162-223).
CollectTasks ==
    /\ modify_pc = "start"
    /\ LET r == collected_tasks(translation_strategies, files)
       IN  /\ all_translation_tasks' = r.tasks
           /\ task_positions' = r.positions
    /\ modify_pc' = "collected"
    /\ UNCHANGED <<files, translation_strategies>>
    /\ UNCHANGED <<pipelineVars, parseVars, mergeVars, diffVars, pathVars>>

NextModify == CollectTasks

SpecModify == InitModify /\ [][NextModify]_vars

(***************************************************************************)
(* LCLT.modify: translation of the collected tasks and write-back          *)
(***************************************************************************)
\* What set_text_recursive raises when the path meets a value that is no container.
ValueError == [t |-> "error", v |-> "ValueError"]

\* An assignment that stores the value under every key of the object.
dict_set_EveryKey(pairs, key, value) ==
    [n \in 1..Len(pairs) |-> <<pairs[n][1], value>>]
\* data[key] = value on an object: the pair of the key is replaced in place.
dict_set(pairs, key, value) ==
    [n \in 1..Len(pairs) |-> IF pairs[n][1] = key THEN <<key, value>> ELSE pairs[n]]
dict_has(pairs, key) == \E n \in 1..Len(pairs) : pairs[n][1] = key
dict_get(pairs, key) == pairs[CHOOSE n \in 1..Len(pairs) : pairs[n][1] = key][2]

\* TextUtils.set_text_recursive: data with the value at path replaced, or the
\* error the call ends with (ValueError stands for the IndexError, KeyError
\* and TypeError of a subscript too). A subscript with an index on a list and
\* a key on an object is what the walk needs; the last assignment on an
\* object adds the key when it is missing.
RECURSIVE set_text_recursive(_, _, _)
set_text_recursive(data, path, value) ==
    LET p == Head(path)
        last == Len(path) = 1
    IN  IF data.t = "list"
        THEN IF p.t = "i" /\ p.v + 1 \in 1..Len(data.v)
             THEN IF last THEN JList([data.v EXCEPT ![p.v + 1] = JStr(value)])
                  ELSE LET inner == set_text_recursive(data.v[p.v + 1], Tail(path), value)
                       IN  IF inner.t = "error" THEN ValueError
                           ELSE JList([data.v EXCEPT ![p.v + 1] = inner])
             ELSE ValueError
        ELSE IF data.t = "dict"
        THEN IF last
             THEN IF dict_has(data.v, p.v)
                  THEN JDict(dict_set(data.v, p.v, JStr(value)))
                  ELSE JDict(Append(data.v, <<p.v, JStr(value)>>))
             ELSE IF dict_has(data.v, p.v)
             THEN LET inner == set_text_recursive(dict_get(data.v, p.v), Tail(path), value)
                  IN  IF inner.t = "error" THEN ValueError
                      ELSE JDict(dict_set(data.v, p.v, inner))
             ELSE ValueError
        ELSE ValueError

\* The loop over task_positions (main.py 234-237): each task whose index is
\* in translations_map has its text set in its file's dataList.
RECURSIVE write_back(_, _, _, _)
write_back(file_list, positions, translations_map, task_idx) ==
    IF task_idx >= Len(positions) THEN file_list
    ELSE LET i == positions[task_idx + 1][1]
             path == positions[task_idx + 1][2]
         IN  IF task_idx \in DOMAIN translations_map
             THEN write_back(
                      [file_list EXCEPT ![i + 1].content.dataList =
                          set_text_recursive(JList(@), path,
                                             translations_map[task_idx]).v],
                      positions, translations_map, task_idx + 1)
             ELSE write_back(file_list, positions, translations_map, task_idx + 1)

\* The text "Max HP: 100".
MaxHpText == <<"M", "a", "x", " ", "H", "P", ":", " ", "1", "0", "0">>
ItemMaxHp == JDict(<< <<"id", JStr(<<"1">>)>>, <<"desc", JStr(MaxHpText)>>,
                      <<"name", JStr(<<>>)>> >>)
ItemHp == JDict(<< <<"content", JList(<<JStr(<<"H", "P">>)>>)>> >>)
\* The file lists of the runs of modify with a backend.
TranslatedFileLists ==
    LET f1 == [keys |-> {"content", "rel_path"}, rel_path |-> <<"d", "/", "x">>,
               content |-> ListContent(<<ItemMaxHp>>)]
        f2 == [keys |-> {"content", "rel_path"}, rel_path |-> <<"y">>,
               content |-> ListContent(<<ItemHp>>)]
    IN  {<<f1>>, <<f2>>, <<f1, f2>>}
\* Their configurations: no strategy, or one strategy of the pool.
TranslatedConfigs == {<<>>} \cup {<<st>> : st \in StrategyPool}

InitTranslate ==
    /\ files \in TranslatedFileLists
    /\ translation_strategies \in TranslatedConfigs
    /\ all_translation_tasks = <<>>
    /\ task_positions = <<>>
    /\ modify_pc = "start"
    /\ PipelineIdle /\ ParseIdle /\ MergeIdle /\ DiffIdle /\ PathIdle

\* modify calls batch_translate_with_multiple_strategies with the collected
\* tasks (main.py 226-230); without tasks it returns the files as they are.
CallTranslator ==
    /\ modify_pc = "collected"
    /\ pc = Idle
    /\ IF all_translation_tasks = <<>>
       THEN /\ modify_pc' = "returned"
            /\ UNCHANGED pipelineVars
       ELSE /\ modify_pc' = "translating"
            /\ tasks' = all_translation_tasks
            /\ max_chars_per_batch' = WorkerThreshold
            /\ pc' = "start"
            /\ UNCHANGED <<all_futures, results_map, global_request_counter,
                           translation_cache, collected>>
    /\ UNCHANGED <<files, translation_strategies, all_translation_tasks,
                   task_positions>>
    /\ UNCHANGED <<parseVars, mergeVars, diffVars, pathVars>>

\* The third step of modify (main.py 232-237) and its return.
WriteBack ==
    /\ modify_pc = "translating"
    /\ pc = "returned"
    /\ files' = write_back(files, task_positions, results_map, 0)
    /\ modify_pc' = "returned"
    /\ UNCHANGED <<translation_strategies, all_translation_tasks, task_positions>>
    /\ UNCHANGED <<pipelineVars, parseVars, mergeVars, diffVars, pathVars>>

NextTranslate ==
    \/ CollectTasks
    \/ CallTranslator
    \/ WriteBack
    \/ Submit
    \/ Collect
    \/ Return
    \/ \E b \in 1..Len(all_futures) : TakeBatch(b)
    \/ \E b \in 1..Len(all_futures) : CacheLookup(b)
    \/ \E b \in 1..Len(all_futures) : CounterRead(b)
    \/ \E b \in 1..Len(all_futures) : CounterStore(b)
    \/ \E b \in 1..Len(all_futures) : RequestFails(b)
    \/ \E b \in 1..Len(all_futures) : RequestSucceeds(b)

SpecTranslate == InitTranslate /\ [][NextTranslate]_vars

(***************************************************************************)
(* Extraction from a dataList and the writes at the extracted paths        *)
(***************************************************************************)
MaxNodes == 4
JsonKeys == <<"id", "content", "sub">>
\* The values of one node: a string, a number, the empty list.
JsonLeaves == <<JStr(<<"a">>), JNum(1), JList(<<>>)>>

\* The sequences of ss one after the other, by halves.
RECURSIVE Concat(_)
Concat(ss) ==
    IF ss = <<>> THEN <<>>
    ELSE IF Len(ss) = 1 THEN ss[1]
    ELSE LET half == Len(ss) \div 2
         IN  Concat(SubSeq(ss, 1, half)) \o Concat(SubSeq(ss, half + 1, Len(ss)))

\* The sequences of n distinct keys, as a sequence.
RECURSIVE KeySeqs(_)
KeySeqs(n) ==
    IF n = 0 THEN << <<>> >>
    ELSE LET shorter == KeySeqs(n - 1)
         IN  Concat([x \in 1..Len(shorter) |->
                 SelectSeq([k \in 1..Len(JsonKeys) |-> Append(shorter[x], JsonKeys[k])],
                           LAMBDA ks : \A y \in 1..(n - 1) : ks[y] # ks[n])])

\* f(a, b) for every a of as and b of bs.
Pairwise(f(_, _), as, bs) ==
    Concat([x \in 1..Len(as) |-> [y \in 1..Len(bs) |-> f(as[x], bs[y])]])
MakeDict(ks, f) == JDict([x \in 1..Len(f) |-> <<ks[x], f[x]>>])
Cons(t, f) == <<t>> \o f

\* The JSON values of exactly n nodes and the non-empty lists of values of n
\* nodes together, each as a sequence without repetition.
RECURSIVE TreesOfSize(_)
RECURSIVE ForestsOfSize(_)
TreesOfSize(n) ==
    IF n = 1 THEN JsonLeaves
    ELSE LET children == ForestsOfSize(n - 1)
         IN  [x \in 1..Len(children) |-> JList(children[x])]
               \o Concat([x \in 1..Len(children) |->
                      IF Len(children[x]) > Len(JsonKeys) THEN <<>>
                      ELSE LET ks == KeySeqs(Len(children[x]))
                           IN  [y \in 1..Len(ks) |-> MakeDict(ks[y], children[x])]])
ForestsOfSize(n) ==
    Concat([k \in 1..n |->
        Pairwise(Cons, TreesOfSize(k),
                 IF k = n THEN << <<>> >> ELSE ForestsOfSize(n - k))])

\* The dataLists of at most MaxNodes nodes below the list.
DataLists == Concat([n \in 1..MaxNodes |-> ForestsOfSize(n)])

\* The pairs extracted from every item j of the list with the prefix [j]
\* (main.py 180-190).
extract_items(items, bl, fields) ==
    Flatten([j \in 1..Len(items) |->
        extract_text_recursive(items[j], bl, <<PIdx(j - 1)>>, fields)])

InitPaths ==
    /\ \E x \in 1..Len(DataLists) : data_items = DataLists[x]
    /\ skip_keys \in {<<>>, <<"id">>}
    /\ allow_fields \in {<<>>, <<"content">>, <<"id", "content">>}
    /\ item_texts = <<>>
    /\ write_idx = 0
    /\ path_pc = "start"
    /\ PipelineIdle /\ ParseIdle /\ MergeIdle /\ DiffIdle /\ ModifyIdle

ExtractItems ==
    /\ path_pc = "start"
    /\ item_texts' = extract_items(data_items, skip_keys, allow_fields)
    /\ path_pc' = "extracted"
    /\ UNCHANGED <<data_items, skip_keys, allow_fields, write_idx>>
    /\ UNCHANGED <<pipelineVars, parseVars, mergeVars, diffVars, modifyVars>>

\* One pass of the write-back loop (main.py 234-237) over a pair that has a
\* translation: the text "z" is set at the pair's path.
SetText ==
    /\ path_pc = "extracted"
    /\ write_idx < Len(item_texts)
    /\ LET written == set_text_recursive(JList(data_items),
                                         item_texts[write_idx + 1][1], <<"z">>)
       IN  IF written.t = "error"
           THEN /\ path_pc' = "ValueError"
                /\ UNCHANGED <<data_items, write_idx>>
           ELSE /\ data_items' = written.v
                /\ write_idx' = write_idx + 1
                /\ UNCHANGED path_pc
    /\ UNCHANGED <<skip_keys, allow_fields, item_texts>>
    /\ UNCHANGED <<pipelineVars, parseVars, mergeVars, diffVars, modifyVars>>

\* One pass of the loop over a pair whose task index is not in the map.
SkipText ==
    /\ path_pc = "extracted"
    /\ write_idx < Len(item_texts)
    /\ write_idx' = write_idx + 1
    /\ UNCHANGED <<data_items, skip_keys, allow_fields, item_texts, path_pc>>
    /\ UNCHANGED <<pipelineVars, parseVars, mergeVars, diffVars, modifyVars>>

NextPaths == ExtractItems \/ SetText \/ SkipText

SpecPaths == InitPaths /\ [][NextPaths]_vars

(***************************************************************************)
(* Properties of the executor                                              *)
(***************************************************************************)
\* The task index of the text at position k (1-based) of a batch.
TaskOf(f, k) == f.group_indices[f.batch_indices[k] + 1]
\* The batch is finished and every backend call made for it failed.
Exhausted(f) == f.st = "done" /\ f.retry_count > max_retries
\* The batch is finished with a parsed reply (its own or a cached one).
Answered(f) == f.st = "done" /\ f.retry_count <= max_retries
\* The calling thread can always go on until it has returned.
NeverStuck == pc \in {"start", "collect"} => ENABLED Next

\* C1 as stated: the tasks of a batch whose backend calls all failed resolve to
\* their text as it was before terminology substitution.
C1_FallbackIsUnsubstitutedText ==
    \A b \in 1..Len(all_futures) :
        LET f == all_futures[b] IN
        Exhausted(f) =>
            \A k \in 1..Len(f.batch_indices) :
                /\ f.batch_indices[k] \in DOMAIN f.batch_results
                /\ f.batch_results[f.batch_indices[k]] = tasks[TaskOf(f, k) + 1].text

\* C1, amended: when every backend call of a batch failed, process_batch yields
\* a result for every task index of the batch, each equal to the task's text
\* after terminology substitution; no exception reaches the future, the call
\* can always proceed to its return, and the returned map holds those texts.
C1_FallbackIsSubstitutedText ==
    /\ NeverStuck
    /\ \A b \in 1..Len(all_futures) :
        LET f == all_futures[b] IN
        Exhausted(f) =>
            /\ f.outcome = "failed"
            /\ \A k \in 1..Len(f.batch_indices) :
                LET want == apply_terminology(tasks[TaskOf(f, k) + 1].text) IN
                /\ f.batch_indices[k] \in DOMAIN f.batch_results
                /\ f.batch_results[f.batch_indices[k]] = want
                /\ pc = "returned" =>
                      /\ TaskOf(f, k) \in DOMAIN results_map
                      /\ results_map[TaskOf(f, k)] = want

\* C1's case: the call has returned and a batch holding a text that terminology
\* substitution changes has exhausted its retries.
C1_Witness ==
    /\ pc = "returned"
    /\ \E b \in 1..Len(all_futures) :
        /\ Exhausted(all_futures[b])
        /\ \E k \in 1..Len(all_futures[b].batch_indices) :
              LET text == tasks[TaskOf(all_futures[b], k) + 1].text
              IN  apply_terminology(text) # text

\* C2: failure is contained per batch. Whatever batches fail, the call can
\* always proceed to its return and no exception reaches a future; in the
\* returned map the tasks of an exhausted batch hold their substituted text,
\* and the task at position k of an answered batch holds entry k - 1 of that
\* batch's parsed reply whenever the reply has it.
C2_FailureContainedPerBatch ==
    /\ NeverStuck
    /\ \A b \in 1..Len(all_futures) :
        LET f == all_futures[b] IN
        /\ f.outcome # "exception"
        /\ pc = "returned" =>
            \A k \in 1..Len(f.batch_indices) :
                /\ f.st = "done"
                /\ TaskOf(f, k) \in DOMAIN results_map
                /\ Exhausted(f) =>
                      results_map[TaskOf(f, k)]
                          = apply_terminology(tasks[TaskOf(f, k) + 1].text)
                /\ (Answered(f) /\ (k - 1) \in DOMAIN f.api_translations) =>
                      results_map[TaskOf(f, k)] = f.api_translations[k - 1]

\* C2's case: the call has returned, one batch exhausted its retries and
\* another batch was answered with an entry for each of its texts.
C2_Witness ==
    /\ pc = "returned"
    /\ \E b, c \in 1..Len(all_futures) :
        /\ Exhausted(all_futures[b])
        /\ Answered(all_futures[c])
        /\ all_futures[c].outcome = "ok"
        /\ \A k \in 1..Len(all_futures[c].batch_indices) :
              (k - 1) \in DOMAIN all_futures[c].api_translations

(***************************************************************************)
(* Properties of the scheduler                                             *)
(***************************************************************************)
\* The task indices of the batches of policy key, concatenated in creation order.
RECURSIVE BatchedTasks(_, _)
BatchedTasks(futures, key) ==
    IF futures = <<>> THEN <<>>
    ELSE (IF Head(futures).key = key
          THEN [k \in 1..Len(Head(futures).batch_indices) |-> TaskOf(Head(futures), k)]
          ELSE <<>>) \o BatchedTasks(Tail(futures), key)
\* The task indices, in task order, of the tasks of policy key whose text is a
\* non-empty str.
RECURSIVE NeedingTasks(_, _)
NeedingTasks(ts, key) ==
    IF ts = <<>> THEN <<>>
    ELSE (IF strategy_key(Head(ts)) = key /\ Head(ts).text # <<>> /\ IsStr(Head(ts).text)
          THEN <<Head(ts).index>> ELSE <<>>) \o NeedingTasks(Tail(ts), key)
\* The bytes of the substituted text at position k of a batch.
BatchTextBytes(f, k) == Utf8Bytes(apply_terminology(tasks[TaskOf(f, k) + 1].text))
RECURSIVE SumBytes(_, _)
SumBytes(f, k) == IF k = 0 THEN 0 ELSE BatchTextBytes(f, k) + SumBytes(f, k - 1)

\* C8: batching neither drops, duplicates, splits nor reorders texts. Once the
\* batches are formed, no batch is empty, the batches of each policy group
\* concatenated in creation order are the group's tasks that need translation
\* in task order (so each is in exactly one batch), and a text whose substituted
\* bytes alone exceed the threshold is alone in its batch.
C8_BatchesPartitionGroup ==
    pc = "collect" =>
        /\ \A b \in 1..Len(all_futures) : all_futures[b].batch_indices # <<>>
        /\ \A key \in PolicyKeys :
              BatchedTasks(all_futures, key) = NeedingTasks(tasks, key)
        /\ \A b \in 1..Len(all_futures) :
              \A k \in 1..Len(all_futures[b].batch_indices) :
                  BatchTextBytes(all_futures[b], k) > max_chars_per_batch
                      => Len(all_futures[b].batch_indices) = 1

\* C8's case: a policy group packed into several batches, one of them a text
\* over the threshold and another holding two texts.
C8_Witness ==
    /\ pc = "collect"
    /\ \E b, c \in 1..Len(all_futures) :
        /\ b # c
        /\ all_futures[b].key = all_futures[c].key
        /\ BatchTextBytes(all_futures[b], 1) > max_chars_per_batch
        /\ Len(all_futures[c].batch_indices) = 2

\* C9: every batch holding more than one text has a sum of UTF-8 bytes of its
\* terminology-substituted texts of at most max_chars_per_batch.
C9_BatchByteBound ==
    \A b \in 1..Len(all_futures) :
        LET f == all_futures[b] IN
        Len(f.batch_indices) > 1
            => SumBytes(f, Len(f.batch_indices)) <= max_chars_per_batch

\* C9's case: a batch of several texts filled exactly to the threshold, next to
\* a batch the scheduler had to open because the threshold was reached.
C9_Witness ==
    \E b, c \in 1..Len(all_futures) :
        /\ b < c
        /\ all_futures[b].key = all_futures[c].key
        /\ Len(all_futures[b].batch_indices) > 1
        /\ SumBytes(all_futures[b], Len(all_futures[b].batch_indices))
              = max_chars_per_batch

(***************************************************************************)
(* Properties of the reply parser                                          *)
(***************************************************************************)
\* The map {i - 1 -> t_i : i = 1..n} of a list of texts.
ZeroBased(ts) == [i \in 0..(Len(ts) - 1) |-> ts[i + 1]]
\* The reply holds no "<thinking>" with a "</thinking>" after it.
NoThinkingRegion(content) ==
    ~ \E i, j \in 1..Len(content) :
          i < j /\ content[i] = THINK_OPEN /\ content[j] = THINK_CLOSE
\* The text neither begins nor ends with whitespace.
NoOuterSpace(t) == t # <<>> /\ ~IsSpace(t[1]) /\ ~IsSpace(t[Len(t)])

\* C10 as stated: a reply of lines 'i. t_i' each followed by the sentinel, t_i
\* any non-empty single line, parses to {i - 1 -> t_i}.
C10_ParsesEveryNumberedReply ==
    parse_pc = "parsed" => api_translations = ZeroBased(reply_texts)

\* C10, amended: a reply of lines 'i. t_i' each followed by the sentinel parses
\* to {i - 1 -> t_i} when every t_i is a non-empty single line that neither
\* begins nor ends with whitespace and the reply holds no <thinking>...
\* </thinking> region.
C10_ParsesTrimmedNumberedReply ==
    (/\ parse_pc = "parsed"
     /\ \A i \in 1..Len(reply_texts) : NoOuterSpace(reply_texts[i])
     /\ NoThinkingRegion(ai_response))
        => api_translations = ZeroBased(reply_texts)

\* C10's case: the reply of section 8 has been parsed.
C10_Witness ==
    /\ parse_pc = "parsed"
    /\ reply_texts = ExampleReplyTexts
    /\ api_translations = (0 :> <<"u4f60", "u597d">> @@ 1 :> <<"u4e16", "u754c">>)

(***************************************************************************)
(* Properties of the merge                                                 *)
(***************************************************************************)
IsPrefix(s, t) == Len(s) <= Len(t) /\ SubSeq(t, 1, Len(s)) = s
\* s is t with some items left out.
RECURSIVE IsSubsequence(_, _)
IsSubsequence(s, t) ==
    IF s = <<>> THEN TRUE
    ELSE IF t = <<>> THEN FALSE
    ELSE IF Head(s) = Head(t) THEN IsSubsequence(Tail(s), Tail(t))
    ELSE IsSubsequence(s, Tail(t))

\* C3: a merge keeps the items the target held, in place and unchanged, and
\* appends items of the source in source order; an appended item with a non-null
\* id has an id that no item before it in the target carries (neither an item
\* of the target before the merge nor one appended earlier in the merge). So a
\* target that started with distinct non-null ids keeps them distinct.
C3_MergeOnlyAppendsNewIds ==
    /\ DistinctIds(target_list)
    /\ merge_pc # "start" =>
        /\ IsPrefix(merge_before, target_list)
        /\ IsSubsequence(SubSeq(target_list, Len(merge_before) + 1, Len(target_list)),
                         source_list)
        /\ \A p \in (Len(merge_before) + 1)..Len(target_list) :
              HasId(target_list[p]) =>
                  \A q \in 1..(p - 1) : target_list[q].id # target_list[p].id

\* C3's case: a second merge into a target holding id 1 met a source with
\* another item of id 1 and an item of id 2; the held item was kept and only
\* the item of id 2 appended.
C3_Witness ==
    /\ merge_pc = "merged twice"
    /\ \E i \in 1..Len(merge_before) : merge_before[i] = [id |-> "1", text |-> "a"]
    /\ source_list = <<[id |-> "1", text |-> "b"], [id |-> "2", text |-> "a"]>>
    /\ target_list = Append(merge_before, [id |-> "2", text |-> "a"])

\* C4 as stated: merging any source list a second time changes nothing.
C4_MergeIdempotent ==
    merge_pc = "remerged" => target_list = merge_before

\* C4, amended: merge is idempotent for every target list T and every source
\* list S whose items all carry a non-null id: merge(merge(T,S),S) = merge(T,S).
C4_MergeIdempotentWithIds ==
    (merge_pc = "remerged" /\ \A i \in 1..Len(source_list) : HasId(source_list[i]))
        => target_list = merge_before

\* C4's case: a source of two items with ids, of which the target held id 1
\* and gained id 2, has been merged a second time.
C4_Witness ==
    /\ merge_pc = "remerged"
    /\ source_list = <<[id |-> "1", text |-> "b"], [id |-> "2", text |-> "a"]>>
    /\ target_list = <<[id |-> "1", text |-> "a"], [id |-> "2", text |-> "a"]>>

\* The records of delta whose rel_path is file_id.
DeltaRecordsOf(file_id) == {i \in 1..Len(delta) : delta[i].rel_path = file_id}
\* The case of C5: file_id is in both maps, the existing content is not None,
\* both contents have a dataList, and the two lists differ in length.
BothHaveLists(file_id) ==
    /\ file_id \in DOMAIN origin_before
    /\ file_id \in DOMAIN existing
    /\ origin_before[file_id].content.has_dataList
    /\ existing[file_id].content.has_dataList
    /\ Len(origin_before[file_id].content.dataList)
           # Len(existing[file_id].content.dataList)
\* The origin items with a non-null id that is no non-null id of the target list.
ItemsTargetLacks(file_id) ==
    LET held == {existing[file_id].content.dataList[j].id :
                    j \in {k \in 1..Len(existing[file_id].content.dataList) :
                              HasId(existing[file_id].content.dataList[k])}}
    IN  SelectSeq(origin_before[file_id].content.dataList,
                  LAMBDA item : HasId(item) /\ item.id \notin held)

\* C5: for a file in both trees whose dataLists differ in length, the delta
\* record's dataList is exactly the origin items with a non-null id that is
\* not among the target's ids, in origin order; when there is no such item
\* the file has no delta record.
C5_DeltaHoldsItemsTargetLacks ==
    diff_pc = "diffed" =>
        \A f \in {"f1", "f2"} :
            BothHaveLists(f) =>
                IF ItemsTargetLacks(f) = <<>>
                THEN DeltaRecordsOf(f) = {}
                ELSE /\ Cardinality(DeltaRecordsOf(f)) = 1
                     /\ \A i \in DeltaRecordsOf(f) :
                            delta[i].content.dataList = ItemsTargetLacks(f)

\* C5's case: origin's f1 holds an item without id and an item of id 2, the
\* target's f1 holds only id 1, and the delta record of f1 holds the item of id 2.
C5_Witness ==
    /\ diff_pc = "diffed"
    /\ BothHaveLists("f1")
    /\ origin_before["f1"].content.dataList
           = <<[id |-> NullId, text |-> "a"], [id |-> "2", text |-> "a"]>>
    /\ existing["f1"].content.dataList = <<[id |-> "1", text |-> "b"]>>
    /\ \E i \in DeltaRecordsOf("f1") :
           delta[i].content.dataList = <<[id |-> "2", text |-> "a"]>>

\* C6: find_new_content(origin, origin) returns the empty list.
C6_SelfDiffIsEmpty ==
    diff_pc = "diffed self" => delta = <<>>

\* C6's case: a map diffed against itself in which f1 has a dataList of two
\* items and f2 is present.
C6_Witness ==
    /\ diff_pc = "diffed self"
    /\ "f1" \in DOMAIN origin_before /\ "f2" \in DOMAIN origin_before
    /\ origin_before["f1"].content.has_dataList
    /\ Len(origin_before["f1"].content.dataList) = 2
    /\ existing = origin_before

\* The strategies resolved for file i (counted from 0) of files.
ResolvedFor(i) ==
    get_strategies_for_file(translation_strategies, Get(files[i + 1], "rel_path", <<>>))
\* The <<path, text>> pairs strategy k of the resolved list yields on item j.
YieldOf(i, j, k) ==
    extract_text_recursive(files[i + 1].content.dataList[j + 1], blacklist,
                           <<PIdx(j)>>, Get(ResolvedFor(i)[k], "extract_fields", <<>>))
Yields(i, j, k, path) == \E e \in 1..Len(YieldOf(i, j, k)) : YieldOf(i, j, k)[e][1] = path
\* The parameters a task gets from a strategy and its model.
SameParameters(task, strategy) ==
    LET expected == task_of(strategy, task.text, task.index)
    IN  /\ task.prompt_file = Get(strategy, "prompt_file", "prompt.txt")
        /\ task.api_key = expected.api_key /\ task.base_url = expected.base_url
        /\ task.model = expected.model /\ task.temperature = expected.temperature
        /\ task.enable_thinking = expected.enable_thinking
TasksAt(i, path) == {n \in 1..Len(task_positions) : task_positions[n] = <<i, path>>}

\* C7: every (file, path) that some strategy resolved for the file yields is
\* the position of exactly one task; the resolved strategies are in ascending
\* priority order, and the task has the text and the parameters of the first
\* of them that yields the path.
C7_FieldTakenByFirstPolicy ==
    modify_pc = "collected" =>
        \A i \in 0..(Len(files) - 1) :
            ~file_is_skipped(files[i + 1]) =>
                /\ \A k1, k2 \in 1..Len(ResolvedFor(i)) :
                       k1 < k2 => priority_of(ResolvedFor(i)[k1])
                                      <= priority_of(ResolvedFor(i)[k2])
                /\ \A j \in 0..(Len(files[i + 1].content.dataList) - 1) :
                       \A k \in 1..Len(ResolvedFor(i)) :
                           \A e \in 1..Len(YieldOf(i, j, k)) :
                               LET path == YieldOf(i, j, k)[e][1]
                                   first == CHOOSE f \in 1..Len(ResolvedFor(i)) :
                                               /\ Yields(i, j, f, path)
                                               /\ \A g \in 1..(f - 1) : ~Yields(i, j, g, path)
                               IN  /\ Cardinality(TasksAt(i, path)) = 1
                                   /\ \A n \in TasksAt(i, path) :
                                          /\ SameParameters(all_translation_tasks[n],
                                                            ResolvedFor(i)[first])
                                          /\ \E x \in 1..Len(YieldOf(i, j, first)) :
                                                 YieldOf(i, j, first)[x]
                                                     = <<path, all_translation_tasks[n].text>>

\* C7's case: the file d/x under a configuration that lists the strategy
\* "ui" before "story"; both yield the content field of item 0, and its one
\* task has the parameters of "ui", while "ui" alone yields the desc field.
C7_Witness ==
    /\ modify_pc = "collected"
    /\ Len(files) >= 1
    /\ Get(files[1], "rel_path", <<>>) = <<"d", "/", "x">>
    /\ Len(translation_strategies) = 2
    /\ translation_strategies[1].name = "ui"
    /\ translation_strategies[2].name = "story"
    /\ \E n \in TasksAt(0, <<PIdx(0), PKey("content")>>) :
           all_translation_tasks[n].prompt_file = "p2"
    /\ \E n \in TasksAt(0, <<PIdx(0), PKey("desc")>>) :
           all_translation_tasks[n].prompt_file = "p2"
    /\ \E n \in TasksAt(0, <<PIdx(1), PKey("sub"), PKey("content")>>) :
           all_translation_tasks[n].model = "M2"

\* The value at path below a JSON value.
RECURSIVE ValueAt(_, _)
ValueAt(data, path) ==
    IF path = <<>> THEN data
    ELSE IF data.t = "list" THEN ValueAt(data.v[Head(path).v + 1], Tail(path))
    ELSE ValueAt(dict_get(data.v, Head(path).v), Tail(path))
\* The value of files at the position of task n (counted from 1).
FieldOfTask(n) ==
    ValueAt(JList(files[task_positions[n][1] + 1].content.dataList),
            task_positions[n][2])
\* Every batch of the call was given up after failing calls only.
EveryCallFailed ==
    \A b \in 1..Len(all_futures) : all_futures[b].outcome = "failed"
MaxHpSubstituted ==
    <<"M", "a", "x", " ", "u751f", "u547d", "u503c", ":", " ", "1", "0", "0">>

\* C11: when every backend call of a run of modify fails, each collected
\* field holds, on return, the terminology-substituted text of the field; a
\* field that held "Max HP: 100" holds "Max 生命值: 100".
C11_UnreachableBackendRoundTrip ==
    (modify_pc = "returned" /\ EveryCallFailed) =>
        \A n \in 1..Len(task_positions) :
            /\ FieldOfTask(n) = JStr(pre_translate(all_translation_tasks[n].text))
            /\ all_translation_tasks[n].text = MaxHpText
                   => FieldOfTask(n) = JStr(MaxHpSubstituted)

\* C11's case: modify has returned after a run in which a batch was given
\* up, and the desc field of item 0 of file 0, which held "Max HP: 100", holds
\* "Max 生命值: 100".
C11_Witness ==
    /\ modify_pc = "returned" /\ EveryCallFailed
    /\ \E b \in 1..Len(all_futures) : all_futures[b].calls = max_retries + 1
    /\ \E n \in 1..Len(task_positions) :
           /\ task_positions[n] = <<0, <<PIdx(0), PKey("desc")>>>>
           /\ all_translation_tasks[n].text = MaxHpText
           /\ FieldOfTask(n) = JStr(MaxHpSubstituted)

\* The pattern entries of the strategy at position c of the configuration
\* that match the path or the bare filename.
EntryMatches(c, e, file_path) ==
    LET pattern == translation_strategies[c].file_patterns[e].pattern
    IN  fnmatch(file_path, pattern) \/ fnmatch(basename(file_path), pattern)
MatchingEntries(c, file_path) ==
    {e \in 1..Len(translation_strategies[c].file_patterns) : EntryMatches(c, e, file_path)}
MatchingPolicies(file_path) ==
    {c \in 1..Len(translation_strategies) : MatchingEntries(c, file_path) # {}}
\* The extract_fields of entry e of strategy c, or the strategy's own.
ResolvedFields(c, e) ==
    LET st == translation_strategies[c]
        entry == st.file_patterns[e]
    IN  IF "extract_fields" \in entry.keys THEN entry.extract_fields
        ELSE IF "extract_fields" \in st.keys THEN st.extract_fields ELSE <<>>
PriorityAt(c) ==
    IF "priority" \in translation_strategies[c].keys
    THEN translation_strategies[c].priority ELSE 999
\* Strategy c comes before strategy d: lower priority, or equal and earlier.
PolicyBefore(c, d) ==
    PriorityAt(c) < PriorityAt(d) \/ (PriorityAt(c) = PriorityAt(d) /\ c < d)
DefaultPolicies ==
    {c \in 1..Len(translation_strategies) : translation_strategies[c].name = "default"}
Ascending(resolved) ==
    \A k1, k2 \in 1..Len(resolved) :
        k1 < k2 => priority_of(resolved[k1]) <= priority_of(resolved[k2])
\* What is returned when nothing matches: the first default in priority order.
FallsBackToDefault(resolved) ==
    IF DefaultPolicies = {} THEN resolved = <<>>
    ELSE /\ Len(resolved) = 1
         /\ \E c \in DefaultPolicies :
                /\ resolved[1] = translation_strategies[c]
                /\ \A d \in DefaultPolicies \ {c} : PolicyBefore(c, d)

\* C12 as stated: the resolved list is in ascending priority and holds each
\* matching policy once, with the extract_fields of one of its matching
\* entries; when nothing matches and there is a default, it is <<default>>.
C12_EachMatchingPolicyOnce ==
    modify_pc = "collected" =>
        \A i \in 0..(Len(files) - 1) :
            LET file_path == Get(files[i + 1], "rel_path", <<>>)
                resolved == ResolvedFor(i)
                rank(c) == 1 + Cardinality({d \in MatchingPolicies(file_path) :
                                               PolicyBefore(d, c)})
            IN  ~file_is_skipped(files[i + 1]) =>
                    IF MatchingPolicies(file_path) = {}
                    THEN FallsBackToDefault(resolved)
                    ELSE /\ Ascending(resolved)
                         /\ Len(resolved) = Cardinality(MatchingPolicies(file_path))
                         /\ \A c \in MatchingPolicies(file_path) :
                                /\ resolved[rank(c)].name = translation_strategies[c].name
                                /\ \E e \in MatchingEntries(c, file_path) :
                                       resolved[rank(c)].extract_fields
                                           = ResolvedFields(c, e)

\* C12: the resolved list holds, for the policies in ascending priority
\* (equal priorities in configuration order), one copy of the policy for each
\* of its matching pattern entries, in entry order, with the extract_fields
\* of that entry or else the policy's own; when nothing matches it is
\* <<default>>, or empty in a configuration without default.
C12_OneCopyPerMatchingEntry ==
    modify_pc = "collected" =>
        \A i \in 0..(Len(files) - 1) :
            LET file_path == Get(files[i + 1], "rel_path", <<>>)
                resolved == ResolvedFor(i)
                pairs == UNION { {<<c, e>> : e \in MatchingEntries(c, file_path)} :
                                 c \in 1..Len(translation_strategies) }
                before(x, y) == PolicyBefore(x[1], y[1]) \/ (x[1] = y[1] /\ x[2] < y[2])
                rank(x) == 1 + Cardinality({y \in pairs : before(y, x)})
            IN  ~file_is_skipped(files[i + 1]) =>
                    IF pairs = {}
                    THEN FallsBackToDefault(resolved)
                    ELSE /\ Ascending(resolved)
                         /\ Len(resolved) = Cardinality(pairs)
                         /\ \A x \in pairs :
                                /\ resolved[rank(x)].name = translation_strategies[x[1]].name
                                /\ resolved[rank(x)].model = translation_strategies[x[1]].model
                                /\ resolved[rank(x)].extract_fields
                                       = ResolvedFields(x[1], x[2])

\* C12's case: for the file d/x the configuration <<story, ui>> resolves to
\* story, then ui with the fields of its entry d/*, then ui with the fields
\* of its entry x.
C12_Witness ==
    /\ modify_pc = "collected"
    /\ Len(files) >= 1 /\ ~file_is_skipped(files[1])
    /\ Get(files[1], "rel_path", <<>>) = <<"d", "/", "x">>
    /\ Len(translation_strategies) = 2
    /\ translation_strategies[1].name = "story"
    /\ translation_strategies[2].name = "ui"
    /\ Len(ResolvedFor(0)) = 3
    /\ ResolvedFor(0)[1].name = "story"
    /\ ResolvedFor(0)[2].name = "ui" /\ ResolvedFor(0)[2].extract_fields = <<"content">>
    /\ ResolvedFor(0)[3].name = "ui" /\ ResolvedFor(0)[3].extract_fields = <<"desc">>

\* No batch has had more than max_retries + 1 backend calls; a batch is
\* given up only after max_retries + 1 calls, all failed; an answered batch had
\* its answer at its last call and holds the parsed reply.
RetryCallsBounded ==
    \A b \in 1..Len(all_futures) :
        LET f == all_futures[b]
        IN  /\ f.calls <= max_retries + 1
            /\ f.retry_count <= f.calls
            /\ f.outcome = "failed"
                   => f.calls = max_retries + 1 /\ f.retry_count = max_retries + 1
            /\ f.outcome = "ok"
                   => /\ f.calls = f.retry_count + 1
                      /\ \E content \in BackendReplies(future_batch_texts(f)) :
                             f.api_translations = ParseResponse(content)
\* A batch that is answered or given up is called no more.
NoCallAfterTheLoop ==
    \A b \in 1..Len(all_futures) :
        (b \in 1..Len(all_futures') /\ all_futures[b].st = "done")
            => all_futures'[b] = all_futures[b]
InRetryLoop(b) == b \in 1..Len(all_futures) /\ all_futures[b].st = "request"
LoopEnded(b) == b \in 1..Len(all_futures) /\ all_futures[b].st = "done"

\* C13: a batch has at most max_retries + 1 backend calls; the first call
\* that answers ends the loop with the parsed reply; max_retries + 1 failed
\* calls end it with the failure; every batch that enters the loop leaves it.
C13_RetryLoopBoundedAndEnds ==
    /\ []RetryCallsBounded
    /\ [][NoCallAfterTheLoop]_vars
    /\ \A b \in 1..2 : InRetryLoop(b) ~> LoopEnded(b)

\* C13's case: of two batches one was answered at its last allowed call,
\* after max_retries failures, and the other given up after max_retries + 1.
C13_Witness ==
    /\ pc = "returned"
    /\ Len(all_futures) = 2
    /\ \E b \in 1..2 : /\ all_futures[b].outcome = "ok"
                       /\ all_futures[b].retry_count = max_retries
                       /\ all_futures[b].calls = max_retries + 1
    /\ \E b \in 1..2 : /\ all_futures[b].outcome = "failed"
                       /\ all_futures[b].calls = max_retries + 1

\* C14: an origin record whose content is null (its file was no JSON) is in
\* the delta, as a whole record.
C14_NullContentRecordInDelta ==
    diff_pc = "diffed" =>
        \A f \in DOMAIN origin_before :
            origin_before[f].content = NullContent
                => \E i \in DeltaRecordsOf(f) : delta[i].content = NullContent

\* C15: every record of the delta has a dataList of at least one item.
C15_NoEmptyRecordInDelta ==
    diff_pc \in {"diffed", "diffed self"} =>
        \A i \in 1..Len(delta) :
            delta[i].content.has_dataList /\ delta[i].content.dataList # <<>>

\* A configuration error: a file with a dataList for which no strategy is
\* resolved, or a resolved strategy naming a model that is not configured.
ConfigurationError ==
    \E i \in 0..(Len(files) - 1) :
        /\ ~file_is_skipped(files[i + 1])
        /\ \/ ResolvedFor(i) = <<>>
           \/ \E k \in 1..Len(ResolvedFor(i)) :
                  Get(ResolvedFor(i)[k], "model", "deepseek") \notin DOMAIN models

\* C16: under a configuration error no backend request is made, and no batch
\* is ever sent to the backend with an empty API key.
C16_ConfigurationErrorBeforeRequest ==
    \A b \in 1..Len(all_futures) :
        all_futures[b].calls > 0
            => ~ConfigurationError /\ all_futures[b].key[1] # ""

\* C17: in a batch whose backend call was answered, the task at position k
\* (from 0) has the parsed entry of key k when the reply has one and its own
\* pre-translated text otherwise, and every task of the batch has a result,
\* whatever numbers the reply lacks or adds.
C17_ReconcileByBatchPosition ==
    \A b \in 1..Len(all_futures) :
        LET f == all_futures[b]
        IN  f.outcome \in {"ok", "cached"} =>
                /\ DOMAIN f.batch_results = Range(f.batch_indices)
                /\ \A k \in 0..(Len(f.batch_indices) - 1) :
                       f.batch_results[f.batch_indices[k + 1]]
                           = IF k \in DOMAIN f.api_translations
                             THEN f.api_translations[k]
                             ELSE f.pre_translated_texts[f.batch_indices[k + 1] + 1]

\* C17's case: a batch of two texts answered by a reply numbered 2 and 3;
\* the first task keeps its pre-translated text, the second has entry 1, and
\* entry 2 goes to no task.
C17_Witness ==
    \E b \in 1..Len(all_futures) :
        LET f == all_futures[b]
        IN  /\ f.outcome = "ok"
            /\ Len(f.batch_indices) = 2
            /\ DOMAIN f.api_translations = {1, 2}
            /\ f.batch_results[f.batch_indices[1]]
                   = f.pre_translated_texts[f.batch_indices[1] + 1]
            /\ f.batch_results[f.batch_indices[2]] = f.api_translations[1]
            /\ f.api_translations[1] # f.pre_translated_texts[f.batch_indices[2] + 1]

\* The batches, by number, that hold task index t.
BatchesOf(t) ==
    {b \in 1..Len(all_futures) :
        \E k \in 1..Len(all_futures[b].batch_indices) : TaskOf(all_futures[b], k) = t}
\* Every entry of results_map is the text of a task of a group that needs no
\* backend call, or the result that the one batch holding the task has for
\* it, entered once that batch is collected.
EntryFromOwnBatch ==
    \A t \in DOMAIN results_map :
        IF BatchesOf(t) = {}
        THEN results_map[t] = tasks[t + 1].text
        ELSE /\ Cardinality(BatchesOf(t)) = 1
             /\ \A b \in BatchesOf(t) :
                    /\ b <= collected
                    /\ \E k \in 1..Len(all_futures[b].batch_indices) :
                           /\ TaskOf(all_futures[b], k) = t
                           /\ results_map[t]
                                  = all_futures[b].batch_results[
                                        all_futures[b].batch_indices[k]]
\* An entry of results_map stays as it was entered.
EntryKept ==
    pc # "start" =>
        \A t \in DOMAIN results_map :
            t \in DOMAIN results_map' /\ results_map'[t] = results_map[t]

\* C18: each task index is entered in results_map at most once, with the
\* result its own batch has for it; the returned map is thus determined by
\* the batches' results, whatever the order in which the workers finish.
C18_EntryWrittenOnceFromOwnBatch ==
    /\ []EntryFromOwnBatch
    /\ [][EntryKept]_vars
    /\ [](pc = "returned" =>
            \A b \in 1..Len(all_futures) :
                \A k \in 1..Len(all_futures[b].batch_indices) :
                    TaskOf(all_futures[b], k) \in DOMAIN results_map)

\* C18's case: two batches with the same request; the second was answered
\* by the backend before the first looked into the cache, and each task has
\* the result of its own batch in the returned map.
C18_Witness ==
    /\ pc = "returned"
    /\ Len(all_futures) = 2
    /\ all_futures[1].outcome = "cached"
    /\ all_futures[2].outcome = "ok"
    /\ results_map[0] = all_futures[1].batch_results[all_futures[1].batch_indices[1]]
    /\ results_map[1] = all_futures[2].batch_results[all_futures[2].batch_indices[1]]

\* Some task of the policy group of task index i has a text to translate.
GroupNeedsBackend(i) ==
    \E j \in 1..Len(tasks) :
        /\ strategy_key(tasks[j]) = strategy_key(tasks[i + 1])
        /\ need_api_translation(tasks[j].text)

\* C19 as stated: the returned map has an entry for every task index, and a
\* task whose text is empty or no str has its original text there.
C19_EveryTaskHasEntry ==
    pc = "returned" =>
        \A i \in 0..(Len(tasks) - 1) :
            /\ i \in DOMAIN results_map
            /\ EmptyOrNotStr(tasks[i + 1].text) => results_map[i] = tasks[i + 1].text

\* C19: no batch holds a task whose text is empty or no str; the returned
\* map has an entry for every task with a text to translate and, with the
\* original text, for every task of a group in which no text is to be
\* translated; an empty or non-str task of a group with a text to translate
\* has no entry.
C19_EntriesOfReturnedMap ==
    /\ \A b \in 1..Len(all_futures) :
           \A k \in 1..Len(all_futures[b].batch_indices) :
               ~EmptyOrNotStr(tasks[TaskOf(all_futures[b], k) + 1].text)
    /\ pc = "returned" =>
           \A i \in 0..(Len(tasks) - 1) :
               IF ~EmptyOrNotStr(tasks[i + 1].text) THEN i \in DOMAIN results_map
               ELSE IF GroupNeedsBackend(i) THEN i \notin DOMAIN results_map
               ELSE i \in DOMAIN results_map /\ results_map[i] = tasks[i + 1].text

\* C19's case: the call has returned for a value that is no str and a text
\* to translate under one policy; only the text has an entry.
C19_Witness ==
    /\ pc = "returned"
    /\ Len(tasks) = 2
    /\ tasks[1].text = NotAStr /\ tasks[2].text = <<"a">>
    /\ strategy_key(tasks[1]) = strategy_key(tasks[2])
    /\ DOMAIN results_map = {1}

\* C20: after the delta of origin against the target is merged into the
\* target, the diff of origin against the updated target is empty, for the
\* trees read again as for the record maps in memory.
C20_SecondDiffIsEmpty ==
    diff_pc \in {"rerun", "diffed again"} => delta = <<>>

\* C20's case: the next run's diff after a merge that created file f2 in
\* the target and appended to f1's empty list the one item that origin's f1
\* holds twice, so that the two lists of f1 still differ in length.
C20_Witness ==
    /\ diff_pc = "rerun"
    /\ DOMAIN existing = {"f1", "f2"}
    /\ DOMAIN origin_before = {"f1", "f2"}
    /\ existing["f2"].content.dataList = origin_before["f2"].content.dataList
    /\ origin_before["f1"].content.dataList =
           <<[id |-> "2", text |-> "a"], [id |-> "2", text |-> "a"]>>
    /\ existing["f1"].content.dataList = <<[id |-> "2", text |-> "a"]>>

\* C21: find_new_content leaves its inputs unchanged: after the call the
\* origin record map and the existing record map are what they were before,
\* also for a record of which only some items are emitted.
C21_InputsUnchanged ==
    [][FindNewContent => (origin' = origin /\ existing' = existing)]_vars

(***************************************************************************)
(* Properties of the line loop                                             *)
(***************************************************************************)
\* The line the loop is about to pass, stripped.
ThisLine == Strip(reply_lines[line_idx + 1])
\* The line is neither blank nor the sentinel.
PlainLine(line) == line # <<>> /\ line # <<SPLITTER>>
\* The line is one or more digits and then a character of closers or, when
\* space_closes, a whitespace character.
StartsNumbered(line, closers, space_closes) ==
    \E d \in 1..(Len(line) - 1) :
        /\ \A k \in 1..d : IsDigit(line[k])
        /\ line[d + 1] \in closers \/ (space_closes /\ IsSpace(line[d + 1]))
\* The text t is what is left of line after a number and its closer.
IsRestOf(t, line) ==
    \E k \in 2..Len(line) : t = Strip(SubSeq(line, k + 1, Len(line)))
\* The pass opens a new entry: the number is the line's number less one and
\* the open entry holds nothing, or only the rest of the line.
OpensEntry ==
    /\ loop'.has_num
    /\ \E d \in 1..Len(ThisLine) :
           /\ \A k \in 1..d : IsDigit(ThisLine[k])
           /\ d = Len(ThisLine) \/ ~IsDigit(ThisLine[d + 1])
           /\ loop'.current_num = CharsToInt(SubSeq(ThisLine, 1, d)) - 1
    /\ \/ loop'.current_translation = <<>>
       \/ /\ Len(loop'.current_translation) = 1
          /\ loop'.current_translation[1] # ThisLine
          /\ IsRestOf(loop'.current_translation[1], ThisLine)
\* The pass appends the line to the open entry and changes nothing else.
AppendsToOpenEntry ==
    loop' = [loop EXCEPT !.current_translation = Append(@, ThisLine)]

\* What a pass over a plain line does, for a class of closing characters.
LineOpensOrAppends(closers, space_closes) ==
    (NextLine /\ PlainLine(ThisLine)) =>
        IF StartsNumbered(ThisLine, closers, space_closes)
        THEN OpensEntry
        ELSE IF loop.has_num THEN AppendsToOpenEntry ELSE loop' = loop

\* C22 as stated: a line opens a new entry exactly when it is digits and then
\* '.', ')' or the ideographic comma; every other plain line, a line of
\* digits and whitespace too, is appended to the open entry.
C22_OpensOnPunctuationOnly ==
    [][LineOpensOrAppends({".", ")", "u3001"}, FALSE)]_vars

\* C22, amended: a line opens a new entry exactly when it is digits and then
\* '.', ')', the full-width ')', the ideographic comma or whitespace; every
\* other plain line is appended to the open entry when there is one and is
\* dropped otherwise.
C22_OpensOnClassOfTheCode ==
    [][LineOpensOrAppends({".", ")", "uff09", "u3001"}, TRUE)]_vars

\* C22's case: with entry 0 open and holding a text, the line "1 你" has
\* opened entry 0 anew, the earlier text flushed to the map.
C22_Witness ==
    /\ parse_pc = "lines"
    /\ line_idx = 2
    /\ reply_lines[2] = <<"1", " ", "u4f60">>
    /\ loop.has_num /\ loop.current_num = 0
    /\ loop.current_translation = << <<"u4f60">> >>
    /\ 0 \in DOMAIN loop.api_translations

(***************************************************************************)
(* Properties of the extraction and of the writes                          *)
(***************************************************************************)
\* Two paths are the same keys and indices.
SamePath(p, q) ==
    /\ Len(p) = Len(q)
    /\ \A k \in 1..Len(p) : p[k].t = q[k].t /\ p[k].v = q[k].v
\* Two JSON values are the same.
RECURSIVE SameJson(_, _)
SameJson(a, b) ==
    /\ a.t = b.t
    /\ IF a.t = "list"
       THEN /\ Len(a.v) = Len(b.v)
            /\ \A n \in 1..Len(a.v) : SameJson(a.v[n], b.v[n])
       ELSE IF a.t = "dict"
       THEN /\ Len(a.v) = Len(b.v)
            /\ \A n \in 1..Len(a.v) :
                   a.v[n][1] = b.v[n][1] /\ SameJson(a.v[n][2], b.v[n][2])
       ELSE a.v = b.v
\* The paths of all values inside data, parents before children and children
\* in the order of the document.
RECURSIVE AllPaths(_, _)
AllPaths(data, prefix) ==
    IF data.t = "list"
    THEN Concat([n \in 1..Len(data.v) |->
            <<Append(prefix, PIdx(n - 1))>>
                \o AllPaths(data.v[n], Append(prefix, PIdx(n - 1)))])
    ELSE IF data.t = "dict"
    THEN Concat([n \in 1..Len(data.v) |->
            <<Append(prefix, PKey(data.v[n][1]))>>
                \o AllPaths(data.v[n][2], Append(prefix, PKey(data.v[n][1])))])
    ELSE <<>>
\* The path passes through a key of the blacklist.
UnderSkippedKey(p) ==
    \E k \in 1..Len(p) : p[k].t = "k" /\ p[k].v \in Range(skip_keys)
\* The last step of the path is a key of the allow-list.
OwnKeyAllowed(p) ==
    p[Len(p)].t = "k" /\ p[Len(p)].v \in Range(allow_fields)
\* The path leads to a string that the claim says is yielded.
ToBeYielded(p) ==
    /\ ValueAt(JList(data_items), p).t = "str"
    /\ ~UnderSkippedKey(p)
    /\ allow_fields = <<>> \/ OwnKeyAllowed(p)
YieldedPaths == SelectSeq(AllPaths(JList(data_items), <<>>), ToBeYielded)

\* C23: the extraction of the items yields, in document order, exactly the
\* strings not under a blacklisted key, and with an allow-list exactly those
\* of them whose own key is in the allow-list, each with its text.
C23_YieldsExactlyTheAllowedStrings ==
    (path_pc = "extracted" /\ write_idx = 0) =>
        /\ Len(item_texts) = Len(YieldedPaths)
        /\ \A e \in 1..Len(item_texts) :
               /\ SamePath(item_texts[e][1], YieldedPaths[e])
               /\ item_texts[e][2] = ValueAt(JList(data_items), YieldedPaths[e]).v

\* C23's case: with the allow-list ["content"] and the blacklist ["id"], of
\* the items {"sub": {"content": "a"}} and "a" the nested content is yielded
\* and the string item is not.
C23_Witness ==
    /\ path_pc = "extracted" /\ write_idx = 0
    /\ allow_fields = <<"content">> /\ skip_keys = <<"id">>
    /\ Len(data_items) = 2
    /\ SameJson(data_items[1],
                JDict(<< <<"sub", JDict(<< <<"content", JStr(<<"a">>)>> >>)>> >>))
    /\ SameJson(data_items[2], JStr(<<"a">>))
    /\ Len(item_texts) = 1
    /\ SamePath(item_texts[1][1], <<PIdx(0), PKey("sub"), PKey("content")>>)

\* The path the write-back loop is about to write, and the dataList before
\* and after the pass.
PathToWrite == item_texts[write_idx + 1][1]
\* Every value of old other than the one at p is in new at the same path:
\* the same kind of value, and the same value when it is no container.
OthersKept(old, new, p) ==
    LET old_paths == AllPaths(old, <<>>)
        new_paths == AllPaths(new, <<>>)
    IN  /\ Len(old_paths) = Len(new_paths)
        /\ \A n \in 1..Len(old_paths) :
               /\ SamePath(old_paths[n], new_paths[n])
               /\ SamePath(old_paths[n], p)
                  \/ LET before == ValueAt(old, old_paths[n])
                         after == ValueAt(new, old_paths[n])
                     IN  /\ before.t = after.t
                         /\ before.t \in {"str", "num"} => before.v = after.v

\* C24: a write at an extracted path ends without error, makes the value at
\* the path the written text, and leaves every other value and the shape of
\* the containers as they were; the write-back loop never fails.
C24_WriteHitsItsPathOnly ==
    [][SetText =>
          /\ path_pc' = "extracted"
          /\ ValueAt(JList(data_items'), PathToWrite).t = "str"
          /\ ValueAt(JList(data_items'), PathToWrite).v = <<"z">>
          /\ OthersKept(JList(data_items), JList(data_items'), PathToWrite)]_vars

\* C24's case: of the item {"content": "a", "sub": "a"} the first field has
\* been passed over, "sub" has been written, and "content" is still "a".
C24_Witness ==
    /\ path_pc = "extracted" /\ write_idx = 2
    /\ Len(item_texts) = 2
    /\ Len(data_items) = 1
    /\ SameJson(data_items[1],
                JDict(<< <<"content", JStr(<<"a">>)>>, <<"sub", JStr(<<"z">>)>> >>))

\* C25: once the call has returned, the request counter equals the number of
\* batches that issued a backend request, whatever the interleaving of the
\* worker threads.
C25_CounterCountsRequestingBatches ==
    pc = "returned" =>
        global_request_counter =
            Cardinality({b \in 1..Len(all_futures) : all_futures[b].calls > 0})

====
